---- MODULE Spec2Model ----
(***************************************************************************)
(* Model of the SIP calculator (src/unnamed/part_000, the calculator       *)
(* script) and of the helpers it uses from src/storage.js.                 *)
(*                                                                         *)
(* JavaScript numbers are modelled as exact rationals over integers of     *)
(* arbitrary size, extended with NaN and the two infinities, so that       *)
(* division by zero, the truthiness test `!x`, Math.round and the          *)
(* remainder operator behave as in the source.  The rounding error of      *)
(* binary double arithmetic itself (a relative 2^-53 per operation) is not *)
(* modelled.                                                               *)
(***************************************************************************)
EXTENDS Integers, Sequences, FiniteSets, TLC

(***************************************************************************)
(* Natural numbers of arbitrary size: little-endian sequences of limbs in  *)
(* 0 .. Base-1 without leading zero limbs; zero is the empty sequence.     *)
(***************************************************************************)
Base == 100 * 100

\* index of the highest non-zero limb of a among 1 .. j, 0 when there is none
RECURSIVE NTop(_, _, _)
NTop(a, i, j) ==
    IF i > j THEN 0
    ELSE IF i = j THEN (IF a[i] = 0 THEN 0 ELSE i)
    ELSE LET mid == (i + j) \div 2
             hi  == NTop(a, mid + 1, j)
         IN  IF hi # 0 THEN hi ELSE NTop(a, i, mid)

NStrip(a) == SubSeq(a, 1, NTop(a, 1, Len(a)))

RECURSIVE NOfInt(_)
NOfInt(i) == IF i = 0 THEN <<>> ELSE <<i % Base>> \o NOfInt(i \div Base)

RECURSIVE NToInt(_)
NToInt(a) == IF a = <<>> THEN 0 ELSE a[1] + Base * NToInt(Tail(a))

NLimb(a, i) == IF i <= Len(a) THEN a[i] ELSE 0

NMaxLen(a, b) == IF Len(a) >= Len(b) THEN Len(a) ELSE Len(b)

\* limbs i .. j of a + b + c and the carry out of limb j; the recursion halves
\* the range, so its depth is logarithmic in the number of limbs
RECURSIVE NAddRange(_, _, _, _, _)
NAddRange(a, b, i, j, c) ==
    IF i = j
    THEN LET s == NLimb(a, i) + NLimb(b, i) + c
         IN  <<(<<s % Base>>), s \div Base>>
    ELSE LET mid == (i + j) \div 2
             lo  == NAddRange(a, b, i, mid, c)
             hi  == NAddRange(a, b, mid + 1, j, lo[2])
         IN  <<lo[1] \o hi[1], hi[2]>>

NAdd(a, b) ==
    IF a = <<>> THEN b
    ELSE IF b = <<>> THEN a
    ELSE LET r == NAddRange(a, b, 1, NMaxLen(a, b), 0)
         IN  IF r[2] = 0 THEN r[1] ELSE Append(r[1], r[2])

\* limbs i .. j of a - b - c and the borrow out of limb j, for a >= b
RECURSIVE NSubRange(_, _, _, _, _)
NSubRange(a, b, i, j, c) ==
    IF i = j
    THEN LET s == a[i] - NLimb(b, i) - c
         IN  IF s < 0 THEN <<(<<s + Base>>), 1>> ELSE <<(<<s>>), 0>>
    ELSE LET mid == (i + j) \div 2
             lo  == NSubRange(a, b, i, mid, c)
             hi  == NSubRange(a, b, mid + 1, j, lo[2])
         IN  <<lo[1] \o hi[1], hi[2]>>

NSub(a, b) == IF a = <<>> THEN a ELSE NStrip(NSubRange(a, b, 1, Len(a), 0)[1])

\* -1, 0, 1 as a < b, a = b, a > b on limbs i .. j (the high limbs decide)
RECURSIVE NCmpRange(_, _, _, _)
NCmpRange(a, b, i, j) ==
    IF i > j THEN 0
    ELSE IF i = j
    THEN (IF a[i] < b[i] THEN -1 ELSE IF a[i] > b[i] THEN 1 ELSE 0)
    ELSE LET mid == (i + j) \div 2
             hi  == NCmpRange(a, b, mid + 1, j)
         IN  IF hi # 0 THEN hi ELSE NCmpRange(a, b, i, mid)

NCmp(a, b) ==
    IF Len(a) < Len(b) THEN -1
    ELSE IF Len(a) > Len(b) THEN 1
    ELSE NCmpRange(a, b, 1, Len(a))

\* limbs i .. j of a * s + c and the carry out, for a limb-sized s
RECURSIVE NMulSmallRange(_, _, _, _, _)
NMulSmallRange(a, s, i, j, c) ==
    IF i = j
    THEN LET p == a[i] * s + c
         IN  <<(<<p % Base>>), p \div Base>>
    ELSE LET mid == (i + j) \div 2
             lo  == NMulSmallRange(a, s, i, mid, c)
             hi  == NMulSmallRange(a, s, mid + 1, j, lo[2])
         IN  <<lo[1] \o hi[1], hi[2]>>

NMulSmall(a, s) ==
    IF s = 0 \/ a = <<>> THEN <<>>
    ELSE LET r == NMulSmallRange(a, s, 1, Len(a), 0)
         IN  IF r[2] = 0 THEN r[1] ELSE Append(r[1], r[2])

\* a * Base^k
NShift(a, k) == IF a = <<>> THEN a ELSE [x \in 1 .. k |-> 0] \o a

\* a times the limbs i .. j of b, as a multiple of Base^(i-1)
RECURSIVE NMulRange(_, _, _, _)
NMulRange(a, b, i, j) ==
    IF i = j THEN NShift(NMulSmall(a, b[i]), i - 1)
    ELSE LET mid == (i + j) \div 2
         IN  NAdd(NMulRange(a, b, i, mid), NMulRange(a, b, mid + 1, j))

NMul(a, b) ==
    IF a = <<>> \/ b = <<>> THEN <<>>
    ELSE IF Len(a) < Len(b) THEN NMulRange(b, a, 1, Len(a))
    ELSE NMulRange(a, b, 1, Len(b))

\* the largest t in lo .. hi-1 with b * t <= r, given b * lo <= r < b * hi
RECURSIVE NDigit(_, _, _, _)
NDigit(r, b, lo, hi) ==
    IF hi - lo = 1 THEN lo
    ELSE LET mid == (lo + hi) \div 2
         IN  IF NCmp(NMulSmall(b, mid), r) <= 0
             THEN NDigit(r, b, mid, hi)
             ELSE NDigit(r, b, lo, mid)

\* long division from limb i of a down, r the remainder so far and q the
\* quotient limbs so far: <<quotient, remainder>>
RECURSIVE NDivFrom(_, _, _, _, _)
NDivFrom(a, b, i, r, q) ==
    IF i = 0 THEN <<NStrip(q), r>>
    ELSE LET r1 == NStrip(<<a[i]>> \o r)
             t  == IF NCmp(r1, b) < 0 THEN 0 ELSE NDigit(r1, b, 1, Base)
         IN  NDivFrom(a, b, i - 1, NSub(r1, NMulSmall(b, t)), <<t>> \o q)

\* <<floor(a / b), a mod b>> for b # 0: the top Len(b)-1 limbs of a are
\* below b and start as the remainder
NDivMod(a, b) ==
    IF NCmp(a, b) < 0 THEN <<(<<>>), a>>
    ELSE LET k == Len(a) - Len(b) + 1
         IN  NDivFrom(a, b, k, SubSeq(a, k + 1, Len(a)), <<>>)

NDiv(a, b) == NDivMod(a, b)[1]

NMod(a, b) == NDivMod(a, b)[2]

\* a^n by squaring
RECURSIVE NPow(_, _)
NPow(a, n) ==
    IF n = 0 THEN <<1>>
    ELSE LET h == NPow(a, n \div 2)
             s == NMul(h, h)
         IN  IF n % 2 = 0 THEN s ELSE NMul(s, a)

(***************************************************************************)
(* JavaScript numbers: [k, neg, n, d] with k "fin" (the rational n/d,      *)
(* negative when neg; d > 0), "inf" (the infinity of sign neg) or "nan".   *)
(***************************************************************************)
Fin(neg, n, d) == [k |-> "fin", neg |-> neg /\ n # <<>>, n |-> n, d |-> d]

NaN == [k |-> "nan", neg |-> FALSE, n |-> <<>>, d |-> <<>>]

Inf(neg) == [k |-> "inf", neg |-> neg, n |-> <<>>, d |-> <<>>]

\* the integer literal i
Num(i) == Fin(i < 0, NOfInt(IF i < 0 THEN -i ELSE i), <<1>>)

\* the decimal literal i/j (j > 0)
Frac(i, j) == Fin(i < 0, NOfInt(IF i < 0 THEN -i ELSE i), NOfInt(j))

IsNaN(x) == x.k = "nan"

IsFin(x) == x.k = "fin"

IsZero(x) == x.k = "fin" /\ x.n = <<>>

Negate(x) ==
    IF x.k = "nan" THEN x
    ELSE IF x.k = "inf" THEN Inf(~x.neg)
    ELSE Fin(~x.neg, x.n, x.d)

\* -2 .. 2: the infinities, the sign of a finite number
Rank(z) ==
    IF z.k = "inf" THEN (IF z.neg THEN -2 ELSE 2)
    ELSE IF z.n = <<>> THEN 0
    ELSE IF z.neg THEN -1 ELSE 1

\* -1, 0, 1 for two numbers that are not NaN
NumCmp(x, y) ==
    IF Rank(x) < Rank(y) THEN -1
    ELSE IF Rank(x) > Rank(y) THEN 1
    ELSE IF x.k = "inf" \/ x.n = <<>> THEN 0
    ELSE IF x.d = y.d THEN (IF x.neg THEN NCmp(y.n, x.n) ELSE NCmp(x.n, y.n))
    ELSE IF x.neg THEN NCmp(NMul(y.n, x.d), NMul(x.n, y.d))
    ELSE NCmp(NMul(x.n, y.d), NMul(y.n, x.d))

\* the sum of the finite numbers of sign neg1, neg2 and magnitude a/den, b/den
SignedSum(neg1, a, neg2, b, den) ==
    IF neg1 = neg2 THEN Fin(neg1, NAdd(a, b), den)
    ELSE IF NCmp(a, b) >= 0 THEN Fin(neg1, NSub(a, b), den)
    ELSE Fin(neg2, NSub(b, a), den)

NumPlus(x, y) ==
    IF IsNaN(x) \/ IsNaN(y) THEN NaN
    ELSE IF x.k = "inf"
    THEN (IF y.k = "inf" /\ y.neg # x.neg THEN NaN ELSE x)
    ELSE IF y.k = "inf" THEN y
    ELSE IF x.d = y.d THEN SignedSum(x.neg, x.n, y.neg, y.n, x.d)
    ELSE SignedSum(x.neg, NMul(x.n, y.d), y.neg, NMul(y.n, x.d), NMul(x.d, y.d))

NumTimes(x, y) ==
    IF IsNaN(x) \/ IsNaN(y) THEN NaN
    ELSE IF x.k = "inf" \/ y.k = "inf"
    THEN (IF IsZero(x) \/ IsZero(y) THEN NaN ELSE Inf(x.neg # y.neg))
    ELSE Fin(x.neg # y.neg, NMul(x.n, y.n), NMul(x.d, y.d))

\* x / y: a finite number over zero is an infinity, 0/0 is NaN
NumOver(x, y) ==
    IF IsNaN(x) \/ IsNaN(y) THEN NaN
    ELSE IF x.k = "inf"
    THEN (IF y.k = "inf" THEN NaN ELSE Inf(x.neg # y.neg))
    ELSE IF y.k = "inf" THEN Fin(FALSE, <<>>, <<1>>)
    ELSE IF IsZero(y) THEN (IF IsZero(x) THEN NaN ELSE Inf(x.neg))
    ELSE Fin(x.neg # y.neg, NMul(x.n, y.d), NMul(x.d, y.n))

\* x % y: the remainder has the sign of x
NumRem(x, y) ==
    IF IsNaN(x) \/ IsNaN(y) \/ x.k = "inf" \/ IsZero(y) THEN NaN
    ELSE IF y.k = "inf" THEN x
    ELSE Fin(x.neg, NMod(NMul(x.n, y.d), NMul(y.n, x.d)), NMul(x.d, y.d))

IsInt(x) == x.k = "fin" /\ NMod(x.n, x.d) = <<>>

\* the magnitude of a small whole number as an integer of the model
Magnitude(x) == NToInt(NDiv(x.n, x.d))

\* x^e for a finite x and e > 0, and its reciprocal
PowParts(neg, n, d, reciprocal) ==
    IF ~reciprocal THEN Fin(neg, n, d)
    ELSE IF n = <<>> THEN Inf(FALSE)
    ELSE Fin(neg, d, n)

PowWhole(x, e, reciprocal) ==
    PowParts(x.neg /\ e % 2 = 1, NPow(x.n, e), NPow(x.d, e), reciprocal)

\* Math.pow(x, y) for a whole exponent y (the exponents of the calculator are
\* month counts)
NumPow(x, y) ==
    CASE IsNaN(y) -> NaN
      [] IsZero(y) -> Num(1)
      [] ~IsZero(y) /\ ~IsNaN(y) /\ IsNaN(x) -> NaN
      [] IsInt(y) /\ ~IsZero(y) /\ x.k = "inf" ->
            IF y.neg THEN Num(0) ELSE Inf(x.neg /\ Magnitude(y) % 2 = 1)
      [] IsInt(y) /\ ~IsZero(y) /\ x.k = "fin" -> PowWhole(x, Magnitude(y), y.neg)

\* floor(n/d + 1/2) for the magnitude n/d of a negative number: 2n and 2d given
RoundNegative(t, d, D) ==
    IF NCmp(t, d) <= 0 THEN Fin(FALSE, <<>>, <<1>>)
    ELSE Fin(TRUE, NDiv(NSub(NAdd(t, d), <<1>>), D), <<1>>)

\* Math.round(x): the nearest whole number, a tie going up
NumMathRound(x) ==
    IF x.k # "fin" THEN x
    ELSE IF ~x.neg
    THEN Fin(FALSE, NDiv(NAdd(NMulSmall(x.n, 2), x.d), NMulSmall(x.d, 2)), <<1>>)
    ELSE RoundNegative(NMulSmall(x.n, 2), x.d, NMulSmall(x.d, 2))

\* y cut to 12 decimals, for y >= 0
NumCut(y) == Fin(FALSE, NDiv(NShift(y.n, 3), y.d), NShift(<<1>>, 3))

(***************************************************************************)
(* Call(f, a) is the value of function f on the argument list a.  Every    *)
(* arithmetic operation and every function of the program is evaluated     *)
(* through this one recursive operator, so that an operation used inside   *)
(* another is a recursive use of Call.                                     *)
(***************************************************************************)
RECURSIVE Call(_, _)

Cmp(x, y) == Call("cmp", <<x, y>>)

Plus(x, y) == Call("+", <<x, y>>)

Minus(x, y) == Call("+", <<x, Negate(y)>>)

Times(x, y) == Call("*", <<x, y>>)

Over(x, y) == Call("/", <<x, y>>)

Rem(x, y) == Call("%", <<x, y>>)

Pow(x, y) == Call("Math.pow", <<x, y>>)

MathRound(x) == Call("Math.round", <<x>>)

\* Math.log(x) / Math.log(b)
LogOver(x, b) == Call("Math.log/", <<x, b>>)

\* the comparison operators of the language: false when an operand is NaN
Lt(x, y) == ~IsNaN(x) /\ ~IsNaN(y) /\ Cmp(x, y) < 0

Le(x, y) == ~IsNaN(x) /\ ~IsNaN(y) /\ Cmp(x, y) <= 0

Gt(x, y) == ~IsNaN(x) /\ ~IsNaN(y) /\ Cmp(x, y) > 0

Ge(x, y) == ~IsNaN(x) /\ ~IsNaN(y) /\ Cmp(x, y) >= 0

\* x === y on numbers
Eq(x, y) == ~IsNaN(x) /\ ~IsNaN(y) /\ Cmp(x, y) = 0

\* !x on a number: true of 0 and NaN
Not(x) == IsNaN(x) \/ IsZero(x)

(***************************************************************************)
(* Math.log(x) / Math.log(b), the one use the program makes of Math.log:   *)
(* the whole part by repeated division, then LogDigits binary digits by    *)
(* repeated squaring, the intermediate values cut to 12 decimals.  The     *)
(* quotient is below the exact one by less than 2^-LogDigits + 10^-6.      *)
(***************************************************************************)
LogDigits == 10

Cut(y) == Call("cut", <<y>>)

\* <<n, y / b^n>> for the whole n >= from with b^n <= y < b^(n+1) (y >= 1, b > 1)
RECURSIVE LogWhole(_, _, _)
LogWhole(y, b, from) ==
    IF Cmp(y, b) < 0 THEN <<from, y>>
    ELSE LogWhole(Cut(Over(y, b)), b, from + 1)

RECURSIVE LogBits(_, _, _, _)

\* the next binary digit is 1 when the square reaches b
LogBit(square, b, bits, acc) ==
    IF Cmp(square, b) >= 0
    THEN LogBits(Cut(Over(square, b)), b, bits - 1, 2 * acc + 1)
    ELSE LogBits(square, b, bits - 1, 2 * acc)

\* the first `bits` binary digits of log(y) / log(b) for 1 <= y < b, after acc
LogBits(y, b, bits, acc) ==
    IF bits = 0 THEN acc ELSE LogBit(Cut(Times(y, y)), b, bits, acc)

\* whole part and binary digits together
LogSum(whole, b) ==
    Plus(Num(whole[1]), Frac(LogBits(whole[2], b, LogDigits, 0), 2 ^ LogDigits))

\* log(y) / log(b) for y >= 1 and b > 1
LogAbove(y, b) == LogSum(LogWhole(y, b, 0), b)

\* NaN for a negative x, -Infinity for 0, Infinity for Infinity
NumLogOver(x, b) ==
    IF IsNaN(x) \/ Rank(x) < 0 THEN NaN
    ELSE IF x.k = "inf" THEN x
    ELSE IF IsZero(x) THEN Inf(TRUE)
    ELSE IF Cmp(x, Num(1)) >= 0 THEN LogAbove(x, b)
    ELSE Negate(LogAbove(Over(Num(1), x), b))

(***************************************************************************)
(* Helpers of src/storage.js                                               *)
(***************************************************************************)
\* Math.round(value * Math.pow(10, decimals)) / Math.pow(10, decimals)
round(value, decimals) ==
    Over(MathRound(Times(value, Pow(Num(10), Num(decimals)))),
         Pow(Num(10), Num(decimals)))

yearsToMonths(years) == Times(years, Num(12))

\* a slip: the percentage is not divided by 100
annualToMonthlyRate_NoPercent(annualRate) == Over(annualRate, Num(12))

annualToMonthlyRate(annualRate) == Over(Over(annualRate, Num(100)), Num(12))

(***************************************************************************)
(* The calculator.  A call ends by returning a value or by throwing.       *)
(***************************************************************************)
Returned(v) == [threw |-> FALSE, error |-> "", value |-> v]

Threw(msg) == [threw |-> TRUE, error |-> msg, value |-> <<>>]

\* a slip: the closing factor is (1 - r) instead of (1 + r)
calculateSIPValue_Discounted(monthlyAmount, months, monthlyRate) ==
    IF Gt(monthlyRate, Num(0))
    THEN LET numerator == Minus(Pow(Plus(Num(1), monthlyRate), months), Num(1))
         IN  Times(Times(monthlyAmount, Over(numerator, monthlyRate)),
                   Minus(Num(1), monthlyRate))
    ELSE Times(monthlyAmount, months)

calculateSIPValue(monthlyAmount, months, monthlyRate) ==
    IF Gt(monthlyRate, Num(0))
    THEN LET numerator == Minus(Pow(Plus(Num(1), monthlyRate), months), Num(1))
         IN  Times(Times(monthlyAmount, Over(numerator, monthlyRate)),
                   Plus(Num(1), monthlyRate))
    ELSE Times(monthlyAmount, months)

\* a slip: only `!years`, so a negative period passes
SIPValidation_NoNegativeYears(monthlyAmount, years, annualReturns) ==
    IF Not(monthlyAmount) \/ Lt(monthlyAmount, Num(0))
    THEN "Monthly amount must be a positive number"
    ELSE IF Not(years)
    THEN "Years must be a positive number"
    ELSE IF Not(annualReturns) \/ Lt(annualReturns, Num(0))
    THEN "Annual returns must be a positive number"
    ELSE ""

\* the validation of calculateSIP: the message of the error thrown, "" when
\* the three checks pass
SIPValidation(monthlyAmount, years, annualReturns) ==
    IF Not(monthlyAmount) \/ Lt(monthlyAmount, Num(0))
    THEN "Monthly amount must be a positive number"
    ELSE IF Not(years) \/ Lt(years, Num(0))
    THEN "Years must be a positive number"
    ELSE IF Not(annualReturns) \/ Lt(annualReturns, Num(0))
    THEN "Annual returns must be a positive number"
    ELSE ""

calculateSIP(monthlyAmount, years, annualReturns) ==
    IF SIPValidation(monthlyAmount, years, annualReturns) # ""
    THEN Threw(SIPValidation(monthlyAmount, years, annualReturns))
    ELSE LET months        == yearsToMonths(years)
             monthlyRate   == annualToMonthlyRate(annualReturns)
             totalInvested == Times(monthlyAmount, months)
             futureValue   ==
                 IF Gt(monthlyRate, Num(0))
                 THEN LET numerator ==
                              Minus(Pow(Plus(Num(1), monthlyRate), months), Num(1))
                      IN  Times(Times(monthlyAmount, Over(numerator, monthlyRate)),
                                Plus(Num(1), monthlyRate))
                 ELSE totalInvested
             returns          == Minus(futureValue, totalInvested)
             returnPercentage == Times(Over(returns, totalInvested), Num(100))
         IN  Returned([monthlyAmount    |-> round(monthlyAmount, 2),
                       years            |-> years,
                       months           |-> months,
                       annualReturns    |-> round(annualReturns, 2),
                       monthlyRate      |-> round(monthlyRate, 6),
                       totalInvested    |-> round(totalInvested, 2),
                       maturityValue    |-> round(futureValue, 2),
                       returns          |-> round(returns, 2),
                       returnPercentage |-> round(returnPercentage, 2)])

\* the row pushed for one year of calculateYearlyGrowth
YearlyRow(monthlyAmount, monthlyRate, year) ==
    LET months           == Times(year, Num(12))
        invested         == Times(monthlyAmount, Num(12))
        totalInvested    == Times(monthlyAmount, months)
        currentValue     == calculateSIPValue(monthlyAmount, months, monthlyRate)
        returns          == Minus(currentValue, totalInvested)
        returnPercentage == IF Gt(totalInvested, Num(0))
                            THEN Times(Over(returns, totalInvested), Num(100))
                            ELSE Num(0)
    IN  [year             |-> year,
         invested         |-> round(invested, 2),
         totalInvested    |-> round(totalInvested, 2),
         currentValue     |-> round(currentValue, 2),
         returns          |-> round(returns, 2),
         returnPercentage |-> round(returnPercentage, 2)]

\* the loop for (year = 1; year <= years; year++), from year on
RECURSIVE YearlyLoop(_, _, _, _)
YearlyLoop(monthlyAmount, monthlyRate, years, year) ==
    IF Le(year, years)
    THEN <<YearlyRow(monthlyAmount, monthlyRate, year)>>
         \o YearlyLoop(monthlyAmount, monthlyRate, years, Plus(year, Num(1)))
    ELSE <<>>

calculateYearlyGrowth(monthlyAmount, years, annualReturns) ==
    YearlyLoop(monthlyAmount, annualToMonthlyRate(annualReturns), years, Num(1))

\* a slip: the denominator lacks the factor (1 + monthlyRate)
calculateRequiredSIP_NoFactor(targetAmount, years, annualReturns) ==
    LET months      == yearsToMonths(years)
        monthlyRate == annualToMonthlyRate(annualReturns)
    IN  IF Gt(monthlyRate, Num(0))
        THEN LET numerator   == Minus(Pow(Plus(Num(1), monthlyRate), months), Num(1))
                 denominator == Over(numerator, monthlyRate)
             IN  round(Over(targetAmount, denominator), 2)
        ELSE round(Over(targetAmount, months), 2)

calculateRequiredSIP(targetAmount, years, annualReturns) ==
    LET months      == yearsToMonths(years)
        monthlyRate == annualToMonthlyRate(annualReturns)
    IN  IF Gt(monthlyRate, Num(0))
        THEN LET numerator   == Minus(Pow(Plus(Num(1), monthlyRate), months), Num(1))
                 denominator == Times(Over(numerator, monthlyRate),
                                      Plus(Num(1), monthlyRate))
             IN  round(Over(targetAmount, denominator), 2)
        ELSE round(Over(targetAmount, months), 2)

calculateRequiredTime(monthlyAmount, targetAmount, annualReturns) ==
    LET monthlyRate == annualToMonthlyRate(annualReturns)
    IN  IF Gt(monthlyRate, Num(0))
        THEN LET ratio  == Plus(Over(Times(targetAmount, monthlyRate),
                                     Times(monthlyAmount, Plus(Num(1), monthlyRate))),
                                Num(1))
                 months == LogOver(ratio, Plus(Num(1), monthlyRate))
             IN  round(Over(months, Num(12)), 2)
        ELSE round(Over(targetAmount, Times(monthlyAmount, Num(12))), 2)

\* a slip: the rate compounds every month
calculateLumpSum_Monthly(principal, years, annualReturns) ==
    LET annualRate       == Over(Over(annualReturns, Num(100)), Num(12))
        futureValue      == Times(principal,
                                  Pow(Plus(Num(1), annualRate), Times(years, Num(12))))
        returns          == Minus(futureValue, principal)
        returnPercentage == Times(Over(returns, principal), Num(100))
    IN  [principal        |-> round(principal, 2),
         years            |-> years,
         annualReturns    |-> round(annualReturns, 2),
         maturityValue    |-> round(futureValue, 2),
         returns          |-> round(returns, 2),
         returnPercentage |-> round(returnPercentage, 2)]

calculateLumpSum(principal, years, annualReturns) ==
    LET annualRate       == Over(annualReturns, Num(100))
        futureValue      == Times(principal, Pow(Plus(Num(1), annualRate), years))
        returns          == Minus(futureValue, principal)
        returnPercentage == Times(Over(returns, principal), Num(100))
    IN  [principal        |-> round(principal, 2),
         years            |-> years,
         annualReturns    |-> round(annualReturns, 2),
         maturityValue    |-> round(futureValue, 2),
         returns          |-> round(returns, 2),
         returnPercentage |-> round(returnPercentage, 2)]

\* the record compareSIPvsLumpSum returns for the two results
Comparison(sipResult, lumpSumResult, totalSIPInvested) ==
    [sip              |-> sipResult,
     lumpSum          |-> lumpSumResult,
     sipTotalInvested |-> totalSIPInvested,
     comparison       |->
         [sipMaturity     |-> sipResult.maturityValue,
          lumpSumMaturity |-> lumpSumResult.maturityValue,
          difference      |-> round(Minus(sipResult.maturityValue,
                                          lumpSumResult.maturityValue), 2),
          winner          |-> IF Gt(sipResult.maturityValue,
                                    lumpSumResult.maturityValue)
                              THEN "SIP" ELSE "Lump Sum"]]

\* the error of calculateSIP leaves compareSIPvsLumpSum as it is thrown
Compared(sipCall, lumpSumResult, totalSIPInvested) ==
    IF sipCall.threw THEN sipCall
    ELSE Returned(Comparison(sipCall.value, lumpSumResult, totalSIPInvested))

compareSIPvsLumpSum(monthlySIP, lumpSumAmount, years, annualReturns) ==
    Compared(Call("calculateSIP", <<monthlySIP, years, annualReturns>>),
             Call("calculateLumpSum", <<lumpSumAmount, years, annualReturns>>).value,
             Times(monthlySIP, yearsToMonths(years)))

\* x || y on numbers: y when x is 0 or missing
OrElse(x, y) == IF Not(x) THEN y ELSE x

\* the arguments calculateMultipleSIPs passes to calculateSIP for a scenario
ScenarioArgs(scenario) ==
    <<OrElse(scenario.amount, scenario.monthlyAmount),
      OrElse(scenario.period, scenario.years),
      OrElse(scenario.returns, scenario.expectedReturns)>>

DigitText == <<"0", "1", "2", "3", "4", "5", "6", "7", "8", "9">>

\* scenario.name || 'SIP ' + index + 1, the + joining text from the left; the
\* scenarios are distinct objects, so indexOf gives the position (from 0)
ScenarioName(scenario, index) ==
    IF scenario.name # "" THEN scenario.name
    ELSE "SIP " \o DigitText[index + 1] \o "1"

\* { name: .., ...result }
Named(name, result) == [name |-> name] @@ result

\* scenarios.map from scenario i on, results the records made so far; an
\* error of calculateSIP ends the whole call
RECURSIVE MapScenarios(_, _, _)

MapScenario(scenarios, i, results, sipCall) ==
    IF sipCall.threw THEN sipCall
    ELSE MapScenarios(scenarios, i + 1,
                      Append(results, Named(ScenarioName(scenarios[i], i - 1),
                                            sipCall.value)))

MapScenarios(scenarios, i, results) ==
    IF i > Len(scenarios) THEN Returned(results)
    ELSE MapScenario(scenarios, i, results,
                     Call("calculateSIP", ScenarioArgs(scenarios[i])))

\* a slip: every scenario is computed with the returns of the first
calculateMultipleSIPs_SharedReturns(scenarios) ==
    MapScenarios([i \in 1 .. Len(scenarios) |->
                     [scenarios[i] EXCEPT !.returns = scenarios[1].returns,
                                          !.expectedReturns =
                                              scenarios[1].expectedReturns]],
                 1, <<>>)

calculateMultipleSIPs(scenarios) == MapScenarios(scenarios, 1, <<>>)

(***************************************************************************)
(* src/ai-engine.js                                                        *)
(***************************************************************************)
Questions ==
    <<"timeHorizon", "riskTolerance", "investmentGoal", "lossTolerance",
      "knowledgeLevel", "experience", "incomeStability">>

weights ==
    [timeHorizon |-> 2, riskTolerance |-> 3, investmentGoal |-> 2,
     lossTolerance |-> 3, knowledgeLevel |-> 1, experience |-> 1,
     incomeStability |-> 1]

\* timeHorizonScores .. stabilityScores
AnswerScores ==
    [timeHorizon     |-> ("short" :> 1 @@ "medium" :> 3 @@ "long" :> 5
                          @@ "very-long" :> 7),
     riskTolerance   |-> ("panic" :> 1 @@ "concern" :> 3 @@ "hold" :> 5
                          @@ "buy" :> 7),
     investmentGoal  |-> ("capital-preservation" :> 1 @@ "balanced-growth" :> 4
                          @@ "aggressive-growth" :> 6 @@ "max-returns" :> 8),
     lossTolerance   |-> ("low" :> 1 @@ "moderate" :> 4 @@ "high" :> 6
                          @@ "very-high" :> 8),
     knowledgeLevel  |-> ("beginner" :> 2 @@ "intermediate" :> 4
                          @@ "advanced" :> 6 @@ "expert" :> 7),
     experience      |-> ("none" :> 2 @@ "limited" :> 4 @@ "moderate" :> 5
                          @@ "extensive" :> 6),
     incomeStability |-> ("unstable" :> 3 @@ "stable" :> 5 @@ "very-stable" :> 6)]

\* the score after ||, for an answer the table does not have
DefaultScores ==
    [timeHorizon |-> 3, riskTolerance |-> 3, investmentGoal |-> 4,
     lossTolerance |-> 4, knowledgeLevel |-> 4, experience |-> 4,
     incomeStability |-> 5]

\* names every object of the language has without listing them: looking one
\* up in a score table gives a function or an object, which || keeps and
\* which multiplied by a weight is NaN
InheritedNames ==
    {"constructor", "toString", "valueOf", "hasOwnProperty", "__proto__"}

\* (scores[answer] || default) * weight; "" is an answer not given
WeightedScore(question, answer) ==
    IF answer \in DOMAIN AnswerScores[question]
    THEN Num(AnswerScores[question][answer] * weights[question])
    ELSE IF answer \in InheritedNames THEN NaN
    ELSE Num(DefaultScores[question] * weights[question])

\* riskScore += .. for the questions from i on
RECURSIVE SumScores(_, _, _)
SumScores(answers, i, riskScore) ==
    IF i > Len(Questions) THEN riskScore
    ELSE SumScores(answers, i + 1,
                   Plus(riskScore, WeightedScore(Questions[i], answers[Questions[i]])))

\* Object.values(weights).reduce((sum, w) => sum + w * 8, 0)
RECURSIVE MaxPossibleScore(_)
MaxPossibleScore(i) ==
    IF i > Len(Questions) THEN 0 ELSE weights[Questions[i]] * 8 + MaxPossibleScore(i + 1)

RiskLevel(normalizedScore) ==
    IF Lt(normalizedScore, Num(35)) THEN "Conservative"
    ELSE IF Gt(normalizedScore, Num(65)) THEN "Aggressive"
    ELSE "Moderate"

\* the record returned, without assessedAt (the time of the call)
RiskProfile(answers, normalizedScore) ==
    [riskScore |-> round(normalizedScore, 1),
     riskLevel |-> RiskLevel(normalizedScore),
     answers   |-> answers]

assessRiskProfile(answers) ==
    RiskProfile(answers,
                Times(Over(SumScores(answers, 1, Num(0)), Num(MaxPossibleScore(1))),
                      Num(100)))

(***************************************************************************)
(* src/planner.js                                                          *)
(***************************************************************************)
\* the risk of an asset class, 5 for one not listed; the name of an inherited
\* property reads as a function, which multiplied is NaN
riskScores(assetType) ==
    CASE assetType = "sip" -> Num(5)
      [] assetType = "stocks" -> Num(8)
      [] assetType = "bonds" -> Num(3)
      [] assetType = "realestate" -> Num(4)
      [] assetType = "gold" -> Num(4)
      [] assetType = "emergency" -> Num(1)
      [] assetType \in InheritedNames -> NaN
      [] OTHER -> Num(5)

\* the forEach of calculatePortfolioRisk from asset i on; assets is the list
\* of the keys of portfolio.assets with their allocation
RECURSIVE WeighAssets(_, _, _, _)
WeighAssets(assets, i, weightedRisk, totalAllocation) ==
    IF i > Len(assets)
    THEN IF IsZero(totalAllocation) THEN Num(5) ELSE round(weightedRisk, 1)
    ELSE IF Not(assets[i].allocation)
    THEN WeighAssets(assets, i + 1, weightedRisk, totalAllocation)
    ELSE WeighAssets(assets, i + 1,
                     Plus(weightedRisk,
                          Times(Over(assets[i].allocation, Num(100)),
                                riskScores(assets[i].assetType))),
                     Plus(totalAllocation, assets[i].allocation))

calculatePortfolioRisk(portfolio) ==
    IF ~portfolio.hasAssets THEN Num(5)
    ELSE WeighAssets(portfolio.assets, 1, Num(0), Num(0))

\* the forEach of validatePortfolioAllocation from asset i on; the result
\* for a portfolio without assets has no totalAllocation (NaN here)
RECURSIVE SumAllocations(_, _, _)
SumAllocations(assets, i, totalAllocation) ==
    IF i > Len(assets) THEN totalAllocation
    ELSE SumAllocations(assets, i + 1,
                        IF Not(assets[i].allocation) THEN totalAllocation
                        ELSE Plus(totalAllocation, assets[i].allocation))

\* the result for a total: Math.abs(totalAllocation - 100) > 0.01 is not valid
Validation(totalAllocation) ==
    IF \/ Gt(Minus(totalAllocation, Num(100)), Frac(1, 100))
       \/ Lt(Minus(totalAllocation, Num(100)), Frac(-1, 100))
    THEN [valid |-> FALSE, message |-> "Total allocation should be 100%",
          totalAllocation |-> round(totalAllocation, 2)]
    ELSE [valid |-> TRUE, message |-> "", totalAllocation |-> Num(100)]

validatePortfolioAllocation(portfolio) ==
    IF ~portfolio.hasAssets
    THEN [valid |-> FALSE, message |-> "Portfolio has no assets",
          totalAllocation |-> NaN]
    ELSE Validation(SumAllocations(portfolio.assets, 1, Num(0)))

allocations ==
    [conservative |-> [sip |-> 40, stocks |-> 20, bonds |-> 30,
                       realestate |-> 5, gold |-> 5],
     moderate     |-> [sip |-> 40, stocks |-> 30, bonds |-> 20,
                       realestate |-> 5, gold |-> 5],
     aggressive   |-> [sip |-> 30, stocks |-> 50, bonds |-> 10,
                       realestate |-> 5, gold |-> 5]]

\* text.toLowerCase(), for the texts with capitals that are passed
toLowerCase(text) ==
    CASE text = "Conservative" -> "conservative"
      [] text = "Moderate" -> "moderate"
      [] text = "Aggressive" -> "aggressive"
      [] text = "AGGRESSIVE" -> "aggressive"
      [] OTHER -> text

\* allocations[level] || allocations.moderate
AllocationOf(level) ==
    IF level \in DOMAIN allocations THEN allocations[level]
    ELSE allocations.moderate

getRecommendedAllocation(riskLevel) == AllocationOf(toLowerCase(riskLevel))

MathMax(i, j) == IF i >= j THEN i ELSE j

MathMin(i, j) == IF i <= j THEN i ELSE j

\* the adjustment for the time horizon
Adjust(allocation, timeHorizon) ==
    IF Not(timeHorizon) THEN allocation
    ELSE IF Lt(timeHorizon, Num(5))
    THEN [allocation EXCEPT !.stocks = MathMax(10, @ - 10),
                            !.bonds = MathMin(40, @ + 10)]
    ELSE IF Gt(timeHorizon, Num(15))
    THEN [allocation EXCEPT !.stocks = MathMin(60, @ + 10),
                            !.bonds = MathMax(10, @ - 10)]
    ELSE allocation

\* Object.values(allocation).reduce((sum, val) => sum + val, 0)
Total(allocation) ==
    allocation.sip + allocation.stocks + allocation.bonds
        + allocation.realestate + allocation.gold

\* the normalisation, done when the total is not 100
Normalize(allocation, total) ==
    [key \in DOMAIN allocation |->
        IF total # 100
        THEN round(Times(Over(Num(allocation[key]), Num(total)), Num(100)), 0)
        ELSE Num(allocation[key])]

Optimized(allocation) == Normalize(allocation, Total(allocation))

optimizePortfolioAllocation(constraints) ==
    Optimized(Adjust(getRecommendedAllocation(IF constraints.riskTolerance = ""
                                              THEN "moderate"
                                              ELSE constraints.riskTolerance),
                     constraints.timeHorizon))

\* the forEach of calculatePortfolioReturns from asset i on; an error of
\* calculateSIP ends the whole call
RECURSIVE SumReturns(_, _, _, _)

AddSIP(assets, i, years, currentValue, sipCall) ==
    IF sipCall.threw THEN sipCall
    ELSE SumReturns(assets, i + 1, years,
                    Plus(currentValue, sipCall.value.maturityValue))

\* asset.amount * Math.pow(1 + annualRate, years)
CompoundValue(asset, years) ==
    Times(asset.amount, Pow(Plus(Num(1), Over(asset.returns, Num(100))), years))

SumReturns(assets, i, years, currentValue) ==
    IF i > Len(assets) THEN Returned(round(currentValue, 2))
    ELSE IF Not(assets[i].amount) \/ Not(assets[i].returns)
    THEN SumReturns(assets, i + 1, years, currentValue)
    ELSE IF assets[i].assetType = "sip" /\ Gt(assets[i].amount, Num(0))
    THEN AddSIP(assets, i, years, currentValue,
                Call("calculateSIP",
                     <<assets[i].amount, years, Times(assets[i].returns, Num(100))>>))
    ELSE SumReturns(assets, i + 1, years,
                    Plus(currentValue, CompoundValue(assets[i], years)))

calculatePortfolioReturns(portfolio) ==
    IF ~portfolio.hasAssets \/ Not(portfolio.timeHorizon) THEN Returned(Num(0))
    ELSE SumReturns(portfolio.assets, 1, portfolio.timeHorizon, Num(0))

(***************************************************************************)
(* src/analytics.js                                                        *)
(***************************************************************************)
null == [type |-> "null"]

\* { ...p.metrics, name: p.name, type: 'portfolio' }, of the metrics the roi
PortfolioInvestment(p) == [roi |-> p.metrics.roi, name |-> p.name, type |-> "portfolio"]

\* { roi: s.result.returnPercentage, name: s.name, type: 'sip' }
SIPInvestment(s) == [roi |-> s.result.returnPercentage, name |-> s.name, type |-> "sip"]

\* allInvestments: the portfolios, then the SIPs
AllInvestments(analytics) ==
    [i \in 1 .. Len(analytics.portfolios) |-> PortfolioInvestment(analytics.portfolios[i])]
        \o [i \in 1 .. Len(analytics.sips) |-> SIPInvestment(analytics.sips[i])]

\* a slip: a later investment replaces an equal one
RECURSIVE ReduceBest_OrEqual(_, _, _)
ReduceBest_OrEqual(allInvestments, i, best) ==
    IF i > Len(allInvestments) THEN best
    ELSE ReduceBest_OrEqual(allInvestments, i + 1,
                            IF Ge(allInvestments[i].roi, best.roi)
                            THEN allInvestments[i] ELSE best)

\* reduce((best, current) => current.roi > best.roi ? current : best)
RECURSIVE ReduceBest(_, _, _)
ReduceBest(allInvestments, i, best) ==
    IF i > Len(allInvestments) THEN best
    ELSE ReduceBest(allInvestments, i + 1,
                    IF Gt(allInvestments[i].roi, best.roi)
                    THEN allInvestments[i] ELSE best)

\* reduce((worst, current) => current.roi < worst.roi ? current : worst)
RECURSIVE ReduceWorst(_, _, _)
ReduceWorst(allInvestments, i, worst) ==
    IF i > Len(allInvestments) THEN worst
    ELSE ReduceWorst(allInvestments, i + 1,
                     IF Lt(allInvestments[i].roi, worst.roi)
                     THEN allInvestments[i] ELSE worst)

\* reduce((sum, inv) => sum + inv.roi, 0)
RECURSIVE SumROI(_, _, _)
SumROI(allInvestments, i, sum) ==
    IF i > Len(allInvestments) THEN sum
    ELSE SumROI(allInvestments, i + 1, Plus(sum, allInvestments[i].roi))

\* the bucket of an investment
Bucket(inv) ==
    IF Lt(inv.roi, Num(8)) THEN "low"
    ELSE IF Lt(inv.roi, Num(15)) THEN "medium"
    ELSE "high"

\* the counts of the investments of each bucket
RiskDistribution(allInvestments) ==
    [bucket \in {"low", "medium", "high"} |->
        Cardinality({i \in DOMAIN allInvestments : Bucket(allInvestments[i]) = bucket})]

Stats(analytics, allInvestments) ==
    IF Len(allInvestments) > 0
    THEN [totalInvestments |-> Len(analytics.portfolios) + Len(analytics.sips),
          bestPerformer    |-> ReduceBest(allInvestments, 2, allInvestments[1]),
          worstPerformer   |-> ReduceWorst(allInvestments, 2, allInvestments[1]),
          averageReturns   |-> Over(SumROI(allInvestments, 1, Num(0)),
                                    Num(Len(allInvestments))),
          riskDistribution |-> RiskDistribution(allInvestments)]
    ELSE [totalInvestments |-> Len(analytics.portfolios) + Len(analytics.sips),
          bestPerformer    |-> null,
          worstPerformer   |-> null,
          averageReturns   |-> Num(0),
          riskDistribution |-> [low |-> 0, medium |-> 0, high |-> 0]]

calculateAggregateStats(analytics) == Stats(analytics, AllInvestments(analytics))

(***************************************************************************)
(* getRecommendedAllocation of src/ai-engine.js.  Its body calls the name   *)
(* getRecommendedAllocation, which src/ai-engine.js and src/planner.js both *)
(* declare: in a module the name is the engine's own function, in a page    *)
(* the function of the script loaded last.                                  *)
(***************************************************************************)
Bindings == {"ai-engine.js", "planner.js"}

\* !riskProfile || !riskProfile.riskLevel: null, an empty text, a text (it
\* has no riskLevel) and an object whose riskLevel is absent or empty
NoRiskLevel(riskProfile) ==
    \/ riskProfile.type \in {"null", "string"}
    \/ riskProfile.type = "object" /\ riskProfile.riskLevel = ""

\* the argument of the call the body makes
Passed(riskProfile) ==
    IF NoRiskLevel(riskProfile)
    THEN [type |-> "object", riskLevel |-> "Moderate"]
    ELSE [type |-> "string", text |-> riskProfile.riskLevel]

\* the planner's function called with a value: riskLevel.toLowerCase() is
\* defined for a text only
PlannerAllocation(riskLevel) ==
    IF riskLevel.type = "string"
    THEN Returned(getRecommendedAllocation(riskLevel.text))
    ELSE Threw("TypeError")

(***************************************************************************)
(* The store of src/storage.js.  localStorage holds a text under each key   *)
(* or nothing; a text is the JSON of a value or is not JSON at all.  A      *)
(* call finds localStorage working ("ok"), refusing to be written, as when  *)
(* its quota is used up ("full"), or refusing every access ("denied").      *)
(***************************************************************************)
Keys == {"sipScenarios", "portfolios", "riskProfile", "comparisonSIPs"}

absent == [text |-> "absent"]

invalid == [text |-> "invalid"]

Access == {"ok", "full", "denied"}

\* a value that is not null
Some(v) == [type |-> "value", value |-> v]

\* JSON has no NaN and no Infinity: such a number is written as null
JSONNumber(x) == IF x = null THEN null ELSE IF IsFin(x) THEN x ELSE null

\* JSON.stringify(value), for the values stored under a key: lists of
\* portfolios, lists of scenarios, a risk profile
JSONStringify(key, v) ==
    [text  |-> "json",
     value |-> CASE key = "portfolios" ->
                      [i \in DOMAIN v |-> [v[i] EXCEPT !.targetAmount = JSONNumber(@)]]
                 [] key \in {"sipScenarios", "comparisonSIPs"} ->
                      [i \in DOMAIN v |-> [v[i] EXCEPT !.monthlyAmount = JSONNumber(@)]]
                 [] key = "riskProfile" -> [v EXCEPT !.riskScore = JSONNumber(@)]]

\* data ? JSON.parse(data) : null, null as well when getItem or JSON.parse throws
getStorageData(items, mode, key) ==
    IF mode = "denied" \/ items[key].text # "json" THEN null
    ELSE Some(items[key].value)

\* the store after setStorageData(key, value), and what it returns
setStorageData(items, mode, key, v) ==
    IF mode = "ok"
    THEN [items |-> [items EXCEPT ![key] = JSONStringify(key, v)], value |-> TRUE]
    ELSE [items |-> items, value |-> FALSE]

\* x || []
OrEmpty(x) == IF x = null THEN <<>> ELSE x.value

\* x || null
OrNull(x) == IF x = null THEN null ELSE x.value

\* the outcome of a call: the store after it and the value returned
Outcome(items, v) == [items |-> items, value |-> v]

\* a slip: the result of the write is returned
saveSIPScenario_Reported(items, mode, scenario) ==
    setStorageData(items, mode, "sipScenarios",
                   Append(OrEmpty(getStorageData(items, mode, "sipScenarios")),
                          scenario))

saveSIPScenario(items, mode, scenario) ==
    Outcome(setStorageData(items, mode, "sipScenarios",
                           Append(OrEmpty(getStorageData(items, mode, "sipScenarios")),
                                  scenario)).items,
            TRUE)

getSIPScenarios(items, mode) == OrEmpty(getStorageData(items, mode, "sipScenarios"))

\* scenarios.splice(index, 1)
Splice(scenarios, index) ==
    SubSeq(scenarios, 1, index) \o SubSeq(scenarios, index + 2, Len(scenarios))

deleteSIPScenario(items, mode, index) ==
    IF index >= 0 /\ index < Len(getSIPScenarios(items, mode))
    THEN Outcome(setStorageData(items, mode, "sipScenarios",
                                Splice(getSIPScenarios(items, mode), index)).items,
                 TRUE)
    ELSE Outcome(items, FALSE)

\* portfolios.findIndex(p => p.id === id), from 0, -1 when there is none
FindIndex(portfolios, id) ==
    IF \E i \in DOMAIN portfolios : portfolios[i].id = id
    THEN (CHOOSE i \in DOMAIN portfolios :
              /\ portfolios[i].id = id
              /\ \A j \in 1 .. i - 1 : portfolios[j].id # id) - 1
    ELSE -1

\* a slip: the portfolio is always pushed
Replaced_Pushed(portfolios, existingIndex, portfolio) == Append(portfolios, portfolio)

\* portfolios[existingIndex] = portfolio, or portfolios.push(portfolio)
Replaced(portfolios, existingIndex, portfolio) ==
    IF existingIndex >= 0
    THEN [portfolios EXCEPT ![existingIndex + 1] = portfolio]
    ELSE Append(portfolios, portfolio)

SavedPortfolios(portfolios, portfolio) ==
    Replaced(portfolios, FindIndex(portfolios, portfolio.id), portfolio)

savePortfolio(items, mode, portfolio) ==
    Outcome(setStorageData(items, mode, "portfolios",
                           SavedPortfolios(OrEmpty(getStorageData(items, mode, "portfolios")),
                                           portfolio)).items,
            TRUE)

getPortfolios(items, mode) == OrEmpty(getStorageData(items, mode, "portfolios"))

\* portfolios.find(p => p.id === id) || null
Find(portfolios, id) ==
    IF FindIndex(portfolios, id) >= 0 THEN portfolios[FindIndex(portfolios, id) + 1]
    ELSE null

getPortfolioById(items, mode, id) == Find(getPortfolios(items, mode), id)

\* portfolios.filter(p => p.id !== id)
RECURSIVE Filter(_, _)
Filter(portfolios, id) ==
    IF portfolios = <<>> THEN <<>>
    ELSE IF Head(portfolios).id # id
    THEN <<Head(portfolios)>> \o Filter(Tail(portfolios), id)
    ELSE Filter(Tail(portfolios), id)

deletePortfolio(items, mode, id) ==
    Outcome(setStorageData(items, mode, "portfolios",
                           Filter(getPortfolios(items, mode), id)).items,
            TRUE)

saveRiskProfile(items, mode, profile) ==
    Outcome(setStorageData(items, mode, "riskProfile", profile).items, TRUE)

getRiskProfile(items, mode) == OrNull(getStorageData(items, mode, "riskProfile"))

\* localStorage.clear()
Cleared == [key \in Keys |-> absent]

\* the record of exportAllData, without exportDate (the time of the call)
exportAllData(items, mode) ==
    [sipScenarios   |-> getSIPScenarios(items, mode),
     portfolios     |-> getPortfolios(items, mode),
     riskProfile    |-> getRiskProfile(items, mode),
     comparisonSIPs |-> OrEmpty(getStorageData(items, mode, "comparisonSIPs"))]

\* if (data[key]) setStorageData(key, data[key]): a list is written even when
\* empty, a null risk profile is not
ImportKey(items, mode, data, key) ==
    IF key = "riskProfile" /\ data.riskProfile = null THEN items
    ELSE setStorageData(items, mode, key, data[key]).items

importData(items, mode, data) ==
    Outcome(ImportKey(ImportKey(ImportKey(ImportKey(items, mode, data, "sipScenarios"),
                                          mode, data, "portfolios"),
                                mode, data, "riskProfile"),
                      mode, data, "comparisonSIPs"),
            TRUE)

\* (month / 12).toFixed(1): one decimal, a tie going away from zero
ToFixed1(x) ==
    IF x.k # "fin" THEN [text |-> "Year", tenths |-> x]
    ELSE LET m == MathRound(Times(Fin(FALSE, x.n, x.d), Num(10)))
         IN  [text |-> "Year", tenths |-> IF x.neg THEN Negate(m) ELSE m]

\* `Year ${years}`: the number as it prints
PlainLabel(x) == [text |-> "Year", number |-> x]

\* a slip: the value is taken one month short of the month count
ProjectionSample_OneMonthShort(monthlyAmount, years, monthlyRate, m, final) ==
    LET totalInvested == Times(monthlyAmount, m)
        currentValue  == calculateSIPValue(monthlyAmount, Minus(m, Num(1)),
                                           monthlyRate)
        returns       == Minus(currentValue, totalInvested)
    IN  [label    |-> IF final THEN PlainLabel(years)
                      ELSE ToFixed1(Over(m, Num(12))),
         invested |-> round(totalInvested, 2),
         maturity |-> round(currentValue, 2),
         returns  |-> round(returns, 2)]

\* the label and the three values pushed for the sample at month, in the loop
\* of calculateSIPProjections (final = FALSE) and after it (final = TRUE)
ProjectionSample(monthlyAmount, years, monthlyRate, m, final) ==
    LET totalInvested == Times(monthlyAmount, m)
        currentValue  == calculateSIPValue(monthlyAmount, m, monthlyRate)
        returns       == Minus(currentValue, totalInvested)
    IN  [label    |-> IF final THEN PlainLabel(years)
                      ELSE ToFixed1(Over(m, Num(12))),
         invested |-> round(totalInvested, 2),
         maturity |-> round(currentValue, 2),
         returns  |-> round(returns, 2)]

\* a slip: the final point is pushed whether or not the loop reached it
TailNeeded_Always(totalMonths, interval) == TRUE

\* totalMonths % interval !== 0: the final point is not yet included
TailNeeded(totalMonths, interval) == ~Eq(Rem(totalMonths, interval), Num(0))

\* the calls the loop of calculateSIPProjections makes for the arguments a:
\* the two conversions, each test month <= totalMonths and each month +=
\* interval of the given number of passes, the sample pushed in each pass, the
\* test of the final point and its sample
LoopCallsOf(a, T, r, months) ==
    {<<"yearsToMonths", <<a.years>>>>,
     <<"annualToMonthlyRate", <<a.annualReturns>>>>,
     <<"tail", <<T, a.interval>>>>,
     <<"sample", <<a.monthlyAmount, a.years, r, T, TRUE>>>>}
        \cup {<<"<=", <<m, T>>>> : m \in months}
        \cup {<<"+", <<m, a.interval>>>> : m \in months}
        \cup {<<"sample", <<a.monthlyAmount, a.years, r, m, FALSE>>>> :
                 m \in {n \in months : Call("<=", <<n, T>>)}}

LoopCalls(a, passes) ==
    LoopCallsOf(a, Call("yearsToMonths", <<a.years>>),
                Call("annualToMonthlyRate", <<a.annualReturns>>),
                {Call("*", <<Num(i), a.interval>>) : i \in 1 .. passes})

\* the table of the results of a set of calls
ResultsOf(calls) == [c \in calls |-> Call(c[1], c[2])] @@ <<>>

Call(f, a) ==
    CASE f = "cmp" -> NumCmp(a[1], a[2])
      [] f = "+" -> NumPlus(a[1], a[2])
      [] f = "*" -> NumTimes(a[1], a[2])
      [] f = "/" -> NumOver(a[1], a[2])
      [] f = "%" -> NumRem(a[1], a[2])
      [] f = "Math.pow" -> NumPow(a[1], a[2])
      [] f = "Math.round" -> NumMathRound(a[1])
      [] f = "Math.log/" -> NumLogOver(a[1], a[2])
      [] f = "cut" -> NumCut(a[1])
      [] f = "<=" -> Le(a[1], a[2])
      [] f = "tail" -> TailNeeded(a[1], a[2])
      [] f = "yearsToMonths" -> yearsToMonths(a[1])
      [] f = "annualToMonthlyRate" -> annualToMonthlyRate(a[1])
      [] f = "calculateSIP" -> calculateSIP(a[1], a[2], a[3])
      [] f = "calculateSIPValue" -> Returned(calculateSIPValue(a[1], a[2], a[3]))
      [] f = "calculateYearlyGrowth" ->
            Returned(calculateYearlyGrowth(a[1], a[2], a[3]))
      [] f = "calculateRequiredSIP" ->
            Returned(calculateRequiredSIP(a[1], a[2], a[3]))
      [] f = "calculateRequiredTime" ->
            Returned(calculateRequiredTime(a[1], a[2], a[3]))
      [] f = "calculateLumpSum" -> Returned(calculateLumpSum(a[1], a[2], a[3]))
      [] f = "compareSIPvsLumpSum" -> compareSIPvsLumpSum(a[1], a[2], a[3], a[4])
      [] f = "results" -> ResultsOf(UNION {LoopCalls(x, a[2]) : x \in a[1]})
      [] f = "calculateMultipleSIPs" -> calculateMultipleSIPs(a[1])
      [] f = "assessRiskProfile" -> Returned(assessRiskProfile(a[1]))
      [] f = "optimizePortfolioAllocation" ->
            Returned(optimizePortfolioAllocation(a[1]))
      [] f = "calculatePortfolioRisk" -> Returned(calculatePortfolioRisk(a[1]))
      [] f = "validatePortfolioAllocation" ->
            Returned(validatePortfolioAllocation(a[1]))
      [] f = "calculatePortfolioReturns" -> calculatePortfolioReturns(a[1])
      [] f = "calculateAggregateStats" -> Returned(calculateAggregateStats(a[1]))
      [] f = "sample" -> ProjectionSample(a[1], a[2], a[3], a[4], a[5])

(***************************************************************************)
(* One call of one function of the calculator.  fn and args are the        *)
(* function called and its arguments, pc the position of the call          *)
(* ("call", "loop" inside the sampling loop of calculateSIPProjections,    *)
(* "done"), ret its outcome.  month, labels, investedValues,               *)
(* maturityValues and returnValues are the locals of                       *)
(* calculateSIPProjections; sampled records the month count behind each    *)
(* sample pushed.  stack holds the arguments of the calls of the AI         *)
(* engine's getRecommendedAllocation that have not returned, binding the    *)
(* script whose function the name getRecommendedAllocation denotes there.  *)
(* localStorage is the store of the browser, access how the call made last *)
(* found it and before the store as that call found it.  now is the clock  *)
(* of the host in milliseconds, wait the delay debounce was given, timeout *)
(* the variable of its closure, timers the timers of the host that are     *)
(* pending, called and invoked the calls of the debounced function and of  *)
(* func made so far.                                                       *)
(***************************************************************************)
VARIABLES fn, args, pc, ret, month, labels, investedValues, maturityValues,
          returnValues, sampled, stack, binding, localStorage, access, before,
          now, timeout, timers, invoked, called, wait

vars == <<fn, args, pc, ret, month, labels, investedValues, maturityValues,
          returnValues, sampled, stack, binding, localStorage, access, before,
          now, timeout, timers, invoked, called, wait>>

locals == <<month, labels, investedValues, maturityValues, returnValues, sampled>>

\* the state outside the calculator
debounced == <<now, timeout, timers, invoked, called, wait>>

others == <<stack, binding, localStorage, access, before, debounced>>

MaxYears == 2

MaxInterval == 7

\* more iterations than any terminating sampling loop of the bounded inputs makes
MaxSamples == 12 * MaxYears + 2

TinyAmount == Frac(1, 1000)

OddAmount == Frac(2500505, 1000)

CloseRate == Frac(12000001, 1000000)

Amounts == {NaN, Num(-100), Num(0), TinyAmount, Num(1000), OddAmount}

Years == {Num(-1), Num(0), Frac(1, 2)} \cup {Num(y) : y \in 1 .. MaxYears}

Rates == {Num(-5), Num(0), Frac(1, 2), Num(12), CloseRate}

MonthCounts == {Num(m) : m \in 0 .. 6 * MaxYears}

MonthlyRates == {Num(0), Frac(1, 2400), Frac(1, 100), Frac(1, 10)}

Targets == {Frac(1, 1000), Num(500), Num(100000), Frac(12345678, 100)}

Intervals == {Num(k) : k \in 0 .. MaxInterval}

\* the worked example of the documentation
ExampleArgs == [monthlyAmount |-> Num(5000), years |-> Num(10), annualReturns |-> Num(12)]

SIPArgs ==
    [monthlyAmount : Amounts, years : Years, annualReturns : Rates]
        \cup {ExampleArgs}

ValueArgs ==
    [monthlyAmount : {Num(0), TinyAmount, Num(1000)}, months : MonthCounts,
     monthlyRate : MonthlyRates]

GrowthArgs ==
    [monthlyAmount : {Num(0), Num(1000), OddAmount}, years : Years,
     annualReturns : {Num(0), Frac(1, 2), Num(12)}]
        \cup {ExampleArgs}

RequiredArgs ==
    [targetAmount : Targets, years : {Frac(1, 2)} \cup {Num(y) : y \in 1 .. MaxYears},
     annualReturns : {Num(0), Frac(1, 2), Num(12)}]
        \cup [targetAmount : {NaN, Num(-500), Num(0), Num(100000)},
              years : {NaN, Num(-1), Num(0), Num(1)},
              annualReturns : {NaN, Num(-5), Num(0), Num(12)}]

TimeArgs ==
    [monthlyAmount : {NaN, Num(-100), Num(0), Num(1000), OddAmount},
     targetAmount : {NaN, Num(-500), Num(0), Num(500), Num(12000), Num(24000)},
     annualReturns : {NaN, Num(-5), Num(0), Num(12), Num(24)}]

\* the worked example of the documentation
LumpSumExample ==
    [principal |-> Num(100000), years |-> Num(5), annualReturns |-> Num(10)]

LumpSumArgs ==
    [principal : {NaN, Num(-1000), Num(0), TinyAmount, Num(1000), OddAmount},
     years : {NaN, Num(-1)} \cup {Num(y) : y \in 0 .. MaxYears},
     annualReturns : {NaN, Num(-5), Num(0), Frac(1, 2), Num(12)}]
        \cup {LumpSumExample}

\* grows to 12809.33 in a year at 12%, as 1000 a month does
TieAmount == Frac(114369018, 10000)

CompareArgs ==
    [monthlySIP : {Num(0), Num(1000), Frac(1000001, 1000)},
     lumpSumAmount : {Num(0), Num(10000), TieAmount, Num(12000), Frac(120000125, 10000)},
     years : {Num(y) : y \in 0 .. MaxYears},
     annualReturns : {Num(0), Num(12)}]

ProjectionArgs ==
    [monthlyAmount : {Num(0), Num(1000)},
     years : {Num(0), Frac(1, 2), Frac(5, 6)} \cup {Num(y) : y \in 1 .. MaxYears},
     annualReturns : {Num(0), Num(12)},
     interval : Intervals]
        \cup [monthlyAmount : {Num(1000)}, years : {Num(0), Num(1)},
              annualReturns : {Num(12)}, interval : {Num(-1)}]

MaxScenarios == 2

\* a field a scenario does not have reads as undefined
Missing == NaN

Scenario(name, amount, monthlyAmount, period, years, returns, expectedReturns) ==
    [name |-> name, amount |-> amount, monthlyAmount |-> monthlyAmount,
     period |-> period, years |-> years, returns |-> returns,
     expectedReturns |-> expectedReturns]

Scenarios ==
    {Scenario("A", Num(1000), Missing, Num(1), Missing, Num(12), Missing),
     Scenario("B", Missing, Num(2000), Missing, Num(2), Missing, Frac(1, 2)),
     Scenario("", OddAmount, Missing, Num(1), Missing, Num(12), Missing),
     Scenario("C", Num(-100), Missing, Num(1), Missing, Num(12), Missing),
     Scenario("D", Num(500), Num(1000), Num(2), Num(1), Num(6), Num(12)),
     Scenario("E", Num(1000), Missing, Num(1), Missing, Num(0), Missing)}

ScenarioLists == UNION {[1 .. n -> Scenarios] : n \in 0 .. MaxScenarios}

\* answers of the questionnaire: listed ones, none (""), one not listed, and
\* one that names an inherited property
AnswerSets ==
    [timeHorizon     : {"short", "medium", "very-long", "", "constructor"},
     riskTolerance   : {"panic", "concern", "hold", "buy", "unsure"},
     investmentGoal  : {"capital-preservation", "balanced-growth",
                        "aggressive-growth", "max-returns"},
     lossTolerance   : {"low", "moderate", "high", "very-high"},
     knowledgeLevel  : {"beginner", "expert"},
     experience      : {"none", "extensive"},
     incomeStability : {"unstable", "very-stable", ""}]

\* constraints: every risk tolerance (none is ""), with capitals, one not
\* known; time horizons absent, 0, below 5, 5 to 15 and above 15
ConstraintSets ==
    [riskTolerance : {"", "conservative", "moderate", "aggressive",
                      "Aggressive", "AGGRESSIVE", "balanced"},
     timeHorizon   : {Missing, Num(0), Num(-1), Num(3), Frac(49, 10), Num(5),
                      Num(10), Num(15), Frac(151, 10), Num(20)}]

MaxAssets == 2

\* an asset class listed, one not listed, one that names an inherited property
AssetTypes == {"stocks", "emergency", "crypto", "constructor"}

Allocations == {Missing, Num(0), Num(50), Num(100)}

\* the assets of a portfolio: its keys in order, each once
AssetLists ==
    {assets \in UNION {[1 .. n -> [assetType : AssetTypes, allocation : Allocations]]
                          : n \in 0 .. MaxAssets} :
        \A i, j \in DOMAIN assets : i # j => assets[i].assetType # assets[j].assetType}

\* portfolios without assets and with a list of them
Portfolios ==
    {[hasAssets |-> FALSE, assets |-> <<>>]}
        \cup [hasAssets : {TRUE}, assets : AssetLists]

\* assets with an amount and a return: a SIP and a lump sum, amounts
\* missing, 0, negative and positive, returns missing, 0 and 12%
InvestedAssets ==
    [assetType : {"sip", "stocks"},
     amount    : {Missing, Num(0), Num(-100), Num(1000)},
     returns   : {Missing, Num(0), Num(12)}]

InvestedAssetLists ==
    {assets \in UNION {[1 .. n -> InvestedAssets] : n \in 0 .. MaxAssets} :
        \A i, j \in DOMAIN assets : i # j => assets[i].assetType # assets[j].assetType}

\* portfolios with a time horizon in whole years, absent or 0
InvestedPortfolios ==
    [hasAssets : {FALSE}, assets : {<<>>},
     timeHorizon : {Missing} \cup {Num(y) : y \in 0 .. MaxYears}]
        \cup [hasAssets : {TRUE}, assets : InvestedAssetLists,
              timeHorizon : {Missing} \cup {Num(y) : y \in 0 .. MaxYears}]

MaxInvestments == 2

\* returns on investment on both sides of the bucket limits 8 and 15
ROIs == {Num(-5), Frac(799, 100), Num(8), Num(15)}

\* the portfolios of an analytics record, named by their place
PortfolioEntries ==
    UNION {[1 .. n -> [name : {"P"}, metrics : [roi : ROIs]]] : n \in 0 .. MaxInvestments}

\* the SIPs of an analytics record
SIPEntries ==
    UNION {[1 .. n -> [name : {"S"}, result : [returnPercentage : ROIs]]]
              : n \in 0 .. MaxInvestments}

\* name the entries of a list by their place: P1, P2, ..
Numbered(entries) ==
    [i \in DOMAIN entries |-> [entries[i] EXCEPT !.name = @ \o DigitText[i + 1]]]

AnalyticsRecords ==
    {[portfolios |-> Numbered(portfolios), sips |-> Numbered(sips)] :
        portfolios \in PortfolioEntries, sips \in SIPEntries}

MaxStack == 4

\* risk profiles: null, without riskLevel, with each level, with one not known
RiskProfiles ==
    {null} \cup [type : {"object"},
                 riskLevel : {"", "Conservative", "Moderate", "Aggressive",
                              "aggressive", "Balanced"}]

(***************************************************************************)
(* The values of the store                                                 *)
(***************************************************************************)
MaxStored == 2

PortfolioIds == {"a", "b"}

\* portfolios to save: with a target amount, and one with none typed (NaN)
StoredPortfolios ==
    [id : PortfolioIds, targetAmount : {Num(100000)}]
        \cup {[id |-> "a", targetAmount |-> NaN]}

StoredScenarios == [name : {"s", "t"}, monthlyAmount : {Num(1000)}]

StoredProfiles == {[riskLevel |-> "Moderate", riskScore |-> Num(50)]}

\* records of exportAllData: of a store with data under every key and of one
\* without a risk profile
ExportRecords ==
    {[sipScenarios   |-> <<[name |-> "s", monthlyAmount |-> Num(1000)]>>,
      portfolios     |-> <<[id |-> "a", targetAmount |-> Num(100000)]>>,
      riskProfile    |-> [riskLevel |-> "Moderate", riskScore |-> Num(50)],
      comparisonSIPs |-> <<[name |-> "t", monthlyAmount |-> Num(1000)]>>],
     [sipScenarios   |-> <<>>,
      portfolios     |-> <<[id |-> "b", targetAmount |-> Num(100000)],
                           [id |-> "a", targetAmount |-> null]>>,
      riskProfile    |-> null,
      comparisonSIPs |-> <<[name |-> "t", monthlyAmount |-> Num(1000)]>>]}

\* the stores a session starts from: nothing stored, or a text under one key
\* that is not JSON
InitialStores ==
    {Cleared} \cup {[Cleared EXCEPT ![key] = invalid] : key \in {"sipScenarios", "portfolios"}}

None == [threw |-> FALSE, error |-> "none", value |-> <<>>]

\* no function has been debounced
NoDebounce ==
    /\ now = 0
    /\ wait = 0
    /\ timeout = 0
    /\ timers = {}
    /\ invoked = <<>>
    /\ called = <<>>

Init ==
    /\ \/ fn = "calculateSIP" /\ args \in SIPArgs
       \/ fn = "calculateSIPValue" /\ args \in ValueArgs
       \/ fn = "calculateYearlyGrowth" /\ args \in GrowthArgs
       \/ fn = "calculateRequiredSIP" /\ args \in RequiredArgs
       \/ fn = "calculateSIPProjections" /\ args \in ProjectionArgs
       \/ fn = "calculateRequiredTime" /\ args \in TimeArgs
       \/ fn = "calculateLumpSum" /\ args \in LumpSumArgs
       \/ fn = "compareSIPvsLumpSum" /\ args \in CompareArgs
       \/ fn = "calculateMultipleSIPs" /\ args \in [scenarios : ScenarioLists]
       \/ fn = "assessRiskProfile" /\ args \in [answers : AnswerSets]
       \/ fn = "optimizePortfolioAllocation" /\ args \in [constraints : ConstraintSets]
       \/ fn \in {"calculatePortfolioRisk", "validatePortfolioAllocation"}
             /\ args \in [portfolio : Portfolios]
       \/ fn = "calculatePortfolioReturns" /\ args \in [portfolio : InvestedPortfolios]
       \/ fn = "calculateAggregateStats" /\ args \in [analytics : AnalyticsRecords]
       \/ fn = "getRecommendedAllocation" /\ args \in [riskProfile : RiskProfiles]
    /\ pc = "call"
    /\ ret = None
    /\ month = Num(0)
    /\ labels = <<>>
    /\ investedValues = <<>>
    /\ maturityValues = <<>>
    /\ returnValues = <<>>
    /\ sampled = <<>>
    /\ stack = <<>>
    /\ binding \in IF fn = "getRecommendedAllocation" THEN Bindings ELSE {"ai-engine.js"}
    /\ localStorage = Cleared
    /\ access = "ok"
    /\ before = Cleared
    /\ NoDebounce

CallCalculateSIP ==
    /\ pc = "call" /\ fn = "calculateSIP"
    /\ ret' = Call(fn, <<args.monthlyAmount, args.years, args.annualReturns>>)
    /\ pc' = "done"
    /\ UNCHANGED <<fn, args, locals, others>>

CallCalculateSIPValue ==
    /\ pc = "call" /\ fn = "calculateSIPValue"
    /\ ret' = Call(fn, <<args.monthlyAmount, args.months, args.monthlyRate>>)
    /\ pc' = "done"
    /\ UNCHANGED <<fn, args, locals, others>>

CallCalculateYearlyGrowth ==
    /\ pc = "call" /\ fn = "calculateYearlyGrowth"
    /\ ret' = Call(fn, <<args.monthlyAmount, args.years, args.annualReturns>>)
    /\ pc' = "done"
    /\ UNCHANGED <<fn, args, locals, others>>

CallCalculateRequiredSIP ==
    /\ pc = "call" /\ fn = "calculateRequiredSIP"
    /\ ret' = Call(fn, <<args.targetAmount, args.years, args.annualReturns>>)
    /\ pc' = "done"
    /\ UNCHANGED <<fn, args, locals, others>>

CallCalculateRequiredTime ==
    /\ pc = "call" /\ fn = "calculateRequiredTime"
    /\ ret' = Call(fn, <<args.monthlyAmount, args.targetAmount, args.annualReturns>>)
    /\ pc' = "done"
    /\ UNCHANGED <<fn, args, locals, others>>

CallCalculateLumpSum ==
    /\ pc = "call" /\ fn = "calculateLumpSum"
    /\ ret' = Call(fn, <<args.principal, args.years, args.annualReturns>>)
    /\ pc' = "done"
    /\ UNCHANGED <<fn, args, locals, others>>

CallCompareSIPvsLumpSum ==
    /\ pc = "call" /\ fn = "compareSIPvsLumpSum"
    /\ ret' = Call(fn, <<args.monthlySIP, args.lumpSumAmount, args.years,
                         args.annualReturns>>)
    /\ pc' = "done"
    /\ UNCHANGED <<fn, args, locals, others>>

CallCalculateMultipleSIPs ==
    /\ pc = "call" /\ fn = "calculateMultipleSIPs"
    /\ ret' = Call(fn, <<args.scenarios>>)
    /\ pc' = "done"
    /\ UNCHANGED <<fn, args, locals, others>>

CallAssessRiskProfile ==
    /\ pc = "call" /\ fn = "assessRiskProfile"
    /\ ret' = Call(fn, <<args.answers>>)
    /\ pc' = "done"
    /\ UNCHANGED <<fn, args, locals, others>>

CallOptimizePortfolioAllocation ==
    /\ pc = "call" /\ fn = "optimizePortfolioAllocation"
    /\ ret' = Call(fn, <<args.constraints>>)
    /\ pc' = "done"
    /\ UNCHANGED <<fn, args, locals, others>>

CallCalculatePortfolioRisk ==
    /\ pc = "call" /\ fn = "calculatePortfolioRisk"
    /\ ret' = Call(fn, <<args.portfolio>>)
    /\ pc' = "done"
    /\ UNCHANGED <<fn, args, locals, others>>

CallValidatePortfolioAllocation ==
    /\ pc = "call" /\ fn = "validatePortfolioAllocation"
    /\ ret' = Call(fn, <<args.portfolio>>)
    /\ pc' = "done"
    /\ UNCHANGED <<fn, args, locals, others>>

CallCalculatePortfolioReturns ==
    /\ pc = "call" /\ fn = "calculatePortfolioReturns"
    /\ ret' = Call(fn, <<args.portfolio>>)
    /\ pc' = "done"
    /\ UNCHANGED <<fn, args, locals, others>>

CallCalculateAggregateStats ==
    /\ pc = "call" /\ fn = "calculateAggregateStats"
    /\ ret' = Call(fn, <<args.analytics>>)
    /\ pc' = "done"
    /\ UNCHANGED <<fn, args, locals, others>>

(***************************************************************************)
(* getRecommendedAllocation of the AI engine, one action per call          *)
(***************************************************************************)
EngineEnter ==
    /\ pc = "call" /\ fn = "getRecommendedAllocation"
    /\ stack' = <<args.riskProfile>>
    /\ pc' = "body"
    /\ UNCHANGED <<fn, args, ret, locals, binding, localStorage, access, before, debounced>>

\* the name is the engine's function: one more call of the same body
EngineRecurse ==
    /\ pc = "body" /\ binding = "ai-engine.js"
    /\ Len(stack) < MaxStack
    /\ stack' = Append(stack, Passed(stack[Len(stack)]))
    /\ UNCHANGED <<fn, args, pc, ret, locals, binding, localStorage, access, before, debounced>>

\* no room for one more call
EngineOverflow ==
    /\ pc = "body" /\ binding = "ai-engine.js"
    /\ Len(stack) = MaxStack
    /\ ret' = Threw("RangeError")
    /\ stack' = <<>>
    /\ pc' = "done"
    /\ UNCHANGED <<fn, args, locals, binding, localStorage, access, before, debounced>>

\* the name is the planner's function: its outcome is the outcome of the call
EnginePlanner ==
    /\ pc = "body" /\ binding = "planner.js"
    /\ ret' = PlannerAllocation(Passed(stack[Len(stack)]))
    /\ stack' = <<>>
    /\ pc' = "done"
    /\ UNCHANGED <<fn, args, locals, binding, localStorage, access, before, debounced>>

(***************************************************************************)
(* calculateSIPProjections, one action per step of its loop                *)
(***************************************************************************)
\* const monthlyRate .. const returnValues = []; month = interval
ProjectionsEnter ==
    /\ pc = "call" /\ fn = "calculateSIPProjections"
    /\ month' = args.interval
    /\ labels' = <<>>
    /\ investedValues' = <<>>
    /\ maturityValues' = <<>>
    /\ returnValues' = <<>>
    /\ sampled' = <<>>
    /\ pc' = "loop"
    /\ UNCHANGED <<fn, args, ret, others>>

\* the result of each of these calls, evaluated once
Results == Call("results", <<ProjectionArgs, MaxSamples + 1>>)

Eval(f, a) == Results[<<f, a>>]

\* a slip: the label of the sample is not pushed
Pushed_NoLabel(s) ==
    [labels   |-> labels,
     invested |-> Append(investedValues, s.invested),
     maturity |-> Append(maturityValues, s.maturity),
     returns  |-> Append(returnValues, s.returns)]

\* the arrays after the push of the sample s
Pushed(s) ==
    [labels   |-> Append(labels, s.label),
     invested |-> Append(investedValues, s.invested),
     maturity |-> Append(maturityValues, s.maturity),
     returns  |-> Append(returnValues, s.returns)]

Unpushed ==
    [labels   |-> labels,
     invested |-> investedValues,
     maturity |-> maturityValues,
     returns  |-> returnValues]

\* one pass of the loop body, then month += interval
ProjectionsIterate ==
    /\ pc = "loop"
    /\ Len(labels) < MaxSamples
    /\ \E results \in {Results} :
       \E totalMonths \in {results[<<"yearsToMonths", <<args.years>>>>]},
          monthlyRate \in {results[<<"annualToMonthlyRate", <<args.annualReturns>>>>]} :
           /\ results[<<"<=", <<month, totalMonths>>>>]
           /\ \E out \in {Pushed(results[<<"sample",
                                            <<args.monthlyAmount, args.years,
                                              monthlyRate, month, FALSE>>>>])} :
                  /\ labels' = out.labels
                  /\ investedValues' = out.invested
                  /\ maturityValues' = out.maturity
                  /\ returnValues' = out.returns
           /\ sampled' = Append(sampled, month)
           /\ month' = results[<<"+", <<month, args.interval>>>>]
    /\ UNCHANGED <<fn, args, pc, ret, others>>

\* the loop condition fails: the final point if totalMonths % interval !== 0,
\* then the return
ProjectionsReturn ==
    /\ pc = "loop"
    /\ \E results \in {Results} :
       \E totalMonths \in {results[<<"yearsToMonths", <<args.years>>>>]},
          monthlyRate \in {results[<<"annualToMonthlyRate", <<args.annualReturns>>>>]} :
           /\ ~results[<<"<=", <<month, totalMonths>>>>]
           /\ \E tail \in {results[<<"tail", <<totalMonths, args.interval>>>>]} :
              \E out \in {IF tail
                          THEN Pushed(results[<<"sample",
                                                <<args.monthlyAmount, args.years,
                                                  monthlyRate, totalMonths, TRUE>>>>])
                          ELSE Unpushed} :
                  /\ labels' = out.labels
                  /\ investedValues' = out.invested
                  /\ maturityValues' = out.maturity
                  /\ returnValues' = out.returns
                  /\ sampled' = IF tail THEN Append(sampled, totalMonths) ELSE sampled
                  /\ ret' = Returned(out)
    /\ pc' = "done"
    /\ UNCHANGED <<fn, args, month, others>>

Next ==
    \/ CallCalculateSIP
    \/ CallCalculateSIPValue
    \/ CallCalculateYearlyGrowth
    \/ CallCalculateRequiredSIP
    \/ CallCalculateRequiredTime
    \/ CallCalculateLumpSum
    \/ CallCompareSIPvsLumpSum
    \/ CallCalculateMultipleSIPs
    \/ CallAssessRiskProfile
    \/ CallOptimizePortfolioAllocation
    \/ CallCalculatePortfolioRisk
    \/ CallValidatePortfolioAllocation
    \/ CallCalculatePortfolioReturns
    \/ CallCalculateAggregateStats
    \/ EngineEnter
    \/ EngineRecurse
    \/ EngineOverflow
    \/ EnginePlanner
    \/ ProjectionsEnter
    \/ ProjectionsIterate
    \/ ProjectionsReturn

Spec == Init /\ [][Next]_vars

(***************************************************************************)
(* The store: a session is a sequence of calls of the functions of         *)
(* src/storage.js, each finding localStorage in one of the ways of Access. *)
(***************************************************************************)
StorageInit ==
    /\ localStorage \in InitialStores
    /\ before = localStorage
    /\ access = "ok"
    /\ fn = "none"
    /\ args = <<>>
    /\ pc = "idle"
    /\ ret = None
    /\ month = Num(0)
    /\ labels = <<>>
    /\ investedValues = <<>>
    /\ maturityValues = <<>>
    /\ returnValues = <<>>
    /\ sampled = <<>>
    /\ stack = <<>>
    /\ binding = "ai-engine.js"
    /\ NoDebounce

\* a call f(a) made with localStorage as mode says, with its outcome; calls
\* are made one after the other
Called(f, a, mode, outcome) ==
    /\ fn' = f
    /\ args' = a
    /\ access' = mode
    /\ before' = localStorage
    /\ localStorage' = outcome.items
    /\ ret' = Returned(outcome.value)
    /\ pc' = "done"
    /\ UNCHANGED <<locals, stack, binding, debounced>>

SaveSIPScenario ==
    \E scenario \in StoredScenarios, mode \in Access :
        /\ pc # "call"
        /\ Len(getSIPScenarios(localStorage, "ok")) < MaxStored
        /\ Called("saveSIPScenario", [scenario |-> scenario], mode,
                  saveSIPScenario(localStorage, mode, scenario))

GetSIPScenarios ==
    \E mode \in Access :
        /\ pc # "call"
        /\ Called("getSIPScenarios", <<>>, mode,
                  Outcome(localStorage, getSIPScenarios(localStorage, mode)))

DeleteSIPScenario ==
    \E index \in -1 .. MaxStored, mode \in Access :
        /\ pc # "call"
        /\ Called("deleteSIPScenario", [index |-> index], mode,
                  deleteSIPScenario(localStorage, mode, index))

SavePortfolio ==
    \E portfolio \in StoredPortfolios, mode \in Access :
        /\ pc # "call"
        /\ Called("savePortfolio", [portfolio |-> portfolio], mode,
                  savePortfolio(localStorage, mode, portfolio))

GetPortfolios ==
    \E mode \in Access :
        /\ pc # "call"
        /\ Called("getPortfolios", <<>>, mode,
                  Outcome(localStorage, getPortfolios(localStorage, mode)))

GetPortfolioById ==
    \E id \in PortfolioIds, mode \in Access :
        /\ pc # "call"
        /\ Called("getPortfolioById", [id |-> id], mode,
                  Outcome(localStorage, getPortfolioById(localStorage, mode, id)))

DeletePortfolio ==
    \E id \in PortfolioIds, mode \in Access :
        /\ pc # "call"
        /\ Called("deletePortfolio", [id |-> id], mode,
                  deletePortfolio(localStorage, mode, id))

SaveRiskProfile ==
    \E profile \in StoredProfiles, mode \in Access :
        /\ pc # "call"
        /\ Called("saveRiskProfile", [profile |-> profile], mode,
                  saveRiskProfile(localStorage, mode, profile))

GetRiskProfile ==
    \E mode \in Access :
        /\ pc # "call"
        /\ Called("getRiskProfile", <<>>, mode,
                  Outcome(localStorage, getRiskProfile(localStorage, mode)))

\* localStorage.clear() is called outside any try: a refusal is thrown on
ClearAllData ==
    \E mode \in Access :
        /\ pc # "call"
        /\ fn' = "clearAllData"
        /\ args' = <<>>
        /\ access' = mode
        /\ before' = localStorage
        /\ localStorage' = IF mode = "denied" THEN localStorage ELSE Cleared
        /\ ret' = IF mode = "denied" THEN Threw("SecurityError") ELSE Returned(TRUE)
        /\ pc' = "done"
        /\ UNCHANGED <<locals, stack, binding, debounced>>

ExportAllData ==
    \E mode \in Access :
        /\ pc # "call"
        /\ Called("exportAllData", <<>>, mode,
                  Outcome(localStorage, exportAllData(localStorage, mode)))

ImportData ==
    \E data \in ExportRecords, mode \in Access :
        /\ pc # "call"
        /\ Called("importData", [data |-> data], mode,
                  importData(localStorage, mode, data))

StorageNext ==
    \/ SaveSIPScenario
    \/ GetSIPScenarios
    \/ DeleteSIPScenario
    \/ SavePortfolio
    \/ GetPortfolios
    \/ GetPortfolioById
    \/ DeletePortfolio
    \/ SaveRiskProfile
    \/ GetRiskProfile
    \/ ClearAllData
    \/ ExportAllData
    \/ ImportData

StorageSpec == StorageInit /\ [][StorageNext]_vars

(***************************************************************************)
(* debounce(func, wait) of src/storage.js and the timers of the host.  A   *)
(* timer is the record of its id, the time it is due and the arguments its *)
(* callback later has captured; the host runs a callback no earlier than   *)
(* its delay after setTimeout, and as much later as its other work makes   *)
(* it.                                                                     *)
(***************************************************************************)
MaxTime == 5

MaxCalls == 3

MaxWait == 2

CallArgs == {"x", "y"}

\* a debounce whose clearTimeout cancels nothing
clearTimeout_Kept(pending, id) == pending

\* clearTimeout(id): the timer of that id is pending no longer; an id that
\* names no pending timer, undefined (0) included, is ignored
clearTimeout(pending, id) == {t \in pending : t.id # id}

\* setTimeout(later, delay) at the time at, for the arguments a: one more
\* timer, under a new id
setTimeout(pending, id, at, delay, a) ==
    pending \cup {[id |-> id, due |-> at + delay, args |-> a]}

\* the state outside the debounced function
elsewhere == <<fn, args, pc, ret, locals, stack, binding, localStorage, access, before>>

\* const f = debounce(func, wait)
DebounceInit ==
    /\ wait \in 1 .. MaxWait
    /\ now = 0
    /\ timeout = 0
    /\ timers = {}
    /\ invoked = <<>>
    /\ called = <<>>
    /\ fn = "debounce"
    /\ args = <<>>
    /\ pc = "idle"
    /\ ret = None
    /\ month = Num(0)
    /\ labels = <<>>
    /\ investedValues = <<>>
    /\ maturityValues = <<>>
    /\ returnValues = <<>>
    /\ sampled = <<>>
    /\ stack = <<>>
    /\ binding = "ai-engine.js"
    /\ localStorage = Cleared
    /\ access = "ok"
    /\ before = Cleared

\* f(a): clearTimeout(timeout); timeout = setTimeout(later, wait)
executedFunction ==
    \E a \in CallArgs :
        /\ Len(called) < MaxCalls
        /\ now + wait <= MaxTime
        /\ timers' = setTimeout(clearTimeout(timers, timeout), Len(called) + 1,
                                now, wait, a)
        /\ timeout' = Len(called) + 1
        /\ called' = Append(called, [time |-> now, args |-> a])
        /\ UNCHANGED <<now, wait, invoked, elsewhere>>

\* the host runs the callback of a timer that is due:
\* clearTimeout(timeout); func(...args)
later ==
    \E t \in timers :
        /\ t.due <= now
        /\ timers' = clearTimeout(timers \ {t}, timeout)
        /\ invoked' = Append(invoked, [time |-> now, args |-> t.args, call |-> t.id])
        /\ UNCHANGED <<now, wait, timeout, called, elsewhere>>

\* a millisecond passes
Elapse ==
    /\ now < MaxTime
    /\ now' = now + 1
    /\ UNCHANGED <<wait, timeout, timers, invoked, called, elsewhere>>

DebounceNext ==
    \/ executedFunction
    \/ later
    \/ Elapse

\* time passes, and the host comes to run the callback of a timer that is due
DebounceSpec ==
    DebounceInit /\ [][DebounceNext]_vars /\ WF_vars(Elapse) /\ WF_vars(later)

\* a sampling loop that is running keeps taking the steps of its code
FairSpec == Spec /\ WF_vars(ProjectionsIterate) /\ WF_vars(ProjectionsReturn)

(***************************************************************************)
(* The claims                                                              *)
(***************************************************************************)
ProjTotalMonths == Times(args.years, Num(12))

Positive(x) == Gt(x, Num(0))

Abs(x) == IF x.neg THEN Negate(x) ELSE x

SIPDone == fn = "calculateSIP" /\ pc = "done"

ValidSIPArgs(a) ==
    Positive(a.monthlyAmount) /\ Positive(a.years) /\ Positive(a.annualReturns)

\* the closed form of the claim, with r = annualReturns / 1200 unrounded
ClosedForm(P, months, r) ==
    Times(Times(P, Over(Minus(Pow(Plus(Num(1), r), months), Num(1)), r)),
          Plus(Num(1), r))

\* C1: for positive monthlyAmount, years and annualReturns calculateSIP returns
\* months = 12 * years, monthlyRate = annualReturns / 1200 (reported to 6
\* decimals), totalInvested = monthlyAmount * months and maturityValue =
\* monthlyAmount * (((1+r)^months - 1) / r) * (1+r), both rounded to 2
\* decimals only at the end; (5000, 10, 12) gives months 120, totalInvested
\* 600000, a maturityValue within 0.5 of 1161695.38 and a returnPercentage
\* within 0.01 of 93.62.
C1_Formula ==
    (SIPDone /\ ValidSIPArgs(args)) =>
        LET months == Times(args.years, Num(12))
            r      == Over(args.annualReturns, Num(1200))
            v      == ret.value
        IN  /\ ~ret.threw
            /\ Eq(v.months, months)
            /\ Eq(v.monthlyRate, round(r, 6))
            /\ Eq(v.totalInvested, round(Times(args.monthlyAmount, months), 2))
            /\ Eq(v.maturityValue,
                  round(ClosedForm(args.monthlyAmount, months, r), 2))
            /\ Eq(v.returns,
                  round(Minus(ClosedForm(args.monthlyAmount, months, r),
                              Times(args.monthlyAmount, months)), 2))
            /\ (args = ExampleArgs =>
                    /\ Eq(v.months, Num(120))
                    /\ Eq(v.monthlyRate, Frac(1, 100))
                    /\ Eq(v.totalInvested, Num(600000))
                    /\ Le(Abs(Minus(v.maturityValue, Frac(116169538, 100))),
                          Frac(1, 2))
                    /\ Le(Abs(Minus(v.returnPercentage, Frac(9362, 100))),
                          Frac(1, 100)))

C1_Witness == SIPDone /\ args = ExampleArgs /\ ~ret.threw

\* C2: with rate 0 the future value is the sum of the contributions and no
\* error is raised: calculateSIP with a positive amount, a positive period and
\* annualReturns = 0 returns maturityValue = totalInvested = monthlyAmount *
\* months, and calculateSIPValue(P, n, 0) = P * n.
C2_ZeroRate ==
    /\ (SIPDone /\ Positive(args.monthlyAmount) /\ Positive(args.years)
            /\ IsZero(args.annualReturns)) =>
           /\ ~ret.threw
           /\ Eq(ret.value.maturityValue, ret.value.totalInvested)
           /\ Eq(ret.value.totalInvested,
                 round(Times(args.monthlyAmount, Times(args.years, Num(12))), 2))
    /\ (fn = "calculateSIPValue" /\ pc = "done" /\ IsZero(args.monthlyRate)) =>
           Eq(ret.value, Times(args.monthlyAmount, args.months))

MonthlyAmountMessage == "Monthly amount must be a positive number"

YearsMessage == "Years must be a positive number"

AnnualReturnsMessage == "Annual returns must be a positive number"

\* C3: calculateSIP called with a monthly amount that is not positive, a
\* negative period or a negative rate throws and returns no result; the
\* message names a field whose value is not positive, and when one field
\* alone is not positive the message names that field.
C3_Rejects ==
    (SIPDone /\ (~Positive(args.monthlyAmount) \/ Lt(args.years, Num(0))
                    \/ Lt(args.annualReturns, Num(0)))) =>
        /\ ret.threw
        /\ ret.value = <<>>
        /\ ret.error \in {MonthlyAmountMessage, YearsMessage, AnnualReturnsMessage}
        /\ ret.error = MonthlyAmountMessage => ~Positive(args.monthlyAmount)
        /\ ret.error = YearsMessage => ~Positive(args.years)
        /\ ret.error = AnnualReturnsMessage => ~Positive(args.annualReturns)
        /\ (Positive(args.years) /\ Positive(args.annualReturns)) =>
               ret.error = MonthlyAmountMessage
        /\ (Positive(args.monthlyAmount) /\ Positive(args.annualReturns)) =>
               ret.error = YearsMessage
        /\ (Positive(args.monthlyAmount) /\ Positive(args.years)) =>
               ret.error = AnnualReturnsMessage

C3_Witness ==
    /\ SIPDone
    /\ Positive(args.monthlyAmount) /\ Positive(args.annualReturns)
    /\ Lt(args.years, Num(0))
    /\ ret.threw /\ ret.error = YearsMessage

GrowthDone == fn = "calculateYearlyGrowth" /\ pc = "done"

ProjectionsRunning == fn = "calculateSIPProjections" /\ pc \in {"loop", "done"}

ProjectionsDone == fn = "calculateSIPProjections" /\ pc = "done"

NonNegative(x) == Ge(x, Num(0))

ValueDone == fn = "calculateSIPValue" /\ pc = "done"

ValueOf(a) == Call("calculateSIPValue", <<a.monthlyAmount, a.months, a.monthlyRate>>).value

SIPOf(a) == Call("calculateSIP", <<a.monthlyAmount, a.years, a.annualReturns>>)

\* the other calls of calculateSIPValue with the same contribution, a positive
\* rate and a positive period, of which one is larger than in this call and
\* the other the same
LaterValueArgs ==
    {b \in ValueArgs :
        /\ b.monthlyAmount = args.monthlyAmount
        /\ Positive(b.monthlyRate) /\ Positive(b.months)
        /\ \/ Gt(b.months, args.months) /\ Eq(b.monthlyRate, args.monthlyRate)
           \/ Gt(b.monthlyRate, args.monthlyRate) /\ Eq(b.months, args.months)}

\* the same for the calls of calculateSIP, all three arguments positive
LaterSIPArgs ==
    {b \in SIPArgs :
        /\ b.monthlyAmount = args.monthlyAmount
        /\ ValidSIPArgs(b)
        /\ \/ Gt(b.years, args.years) /\ Eq(b.annualReturns, args.annualReturns)
           \/ Gt(b.annualReturns, args.annualReturns) /\ Eq(b.years, args.years)}

ValueGrows ==
    (ValueDone /\ Positive(args.monthlyAmount) /\ Positive(args.months)
        /\ Positive(args.monthlyRate)) =>
        \A b \in LaterValueArgs : Gt(ValueOf(b), ret.value)

\* C5 as stated: with contribution, rate and period positive, the maturity
\* value of calculateSIPValue and the maturityValue of calculateSIP strictly
\* increase when the period increases and when the rate increases, the other
\* inputs fixed.
C5_StrictlyIncreasing ==
    /\ ValueGrows
    /\ (SIPDone /\ ValidSIPArgs(args)) =>
           \A b \in LaterSIPArgs :
               Gt(SIPOf(b).value.maturityValue, ret.value.maturityValue)

\* C5 amended: the value of calculateSIPValue strictly increases with the
\* period and with the rate; the maturityValue calculateSIP returns, rounded
\* to 2 decimals, never decreases, and increases strictly whenever the
\* unrounded values differ by at least 0.01.
C5_Monotone ==
    /\ ValueGrows
    /\ (SIPDone /\ ValidSIPArgs(args)) =>
           \A b \in LaterSIPArgs :
               /\ Ge(SIPOf(b).value.maturityValue, ret.value.maturityValue)
               /\ Ge(Minus(ClosedForm(b.monthlyAmount, Times(b.years, Num(12)),
                                      Over(b.annualReturns, Num(1200))),
                           ClosedForm(args.monthlyAmount, Times(args.years, Num(12)),
                                      Over(args.annualReturns, Num(1200)))),
                     Frac(1, 100))
                  => Gt(SIPOf(b).value.maturityValue, ret.value.maturityValue)

\* a call of calculateSIP and one with a larger rate that return the same
\* maturityValue, and a later period that returns a larger one
C5_Witness ==
    /\ SIPDone /\ ValidSIPArgs(args)
    /\ \E b \in LaterSIPArgs :
           /\ Gt(b.annualReturns, args.annualReturns)
           /\ Eq(SIPOf(b).value.maturityValue, ret.value.maturityValue)
    /\ \E b \in LaterSIPArgs :
           Gt(SIPOf(b).value.maturityValue, ret.value.maturityValue)

\* the multiples i * k of the interval that are <= T, as the values of i
MultiplesUpTo(k, T) == {i \in 1 .. MaxSamples : Le(Times(Num(i), k), T)}

IsMultiple(k, T) == \E i \in 0 .. MaxSamples : Eq(Times(Num(i), k), T)

\* the months the claim expects for interval k and duration T
ExpectedMonths(k, T) ==
    [i \in 1 .. Cardinality(MultiplesUpTo(k, T)) |-> Times(Num(i), k)]
        \o (IF IsMultiple(k, T) THEN <<>> ELSE <<T>>)

SameNumbers(s, t) ==
    Len(s) = Len(t) /\ \A i \in 1 .. Len(s) : Eq(s[i], t[i])

\* C6: with an interval k >= 1 and a duration of T months the series
\* calculateSIPProjections returns has one sample for each multiple of k that
\* is <= T, in increasing order, and one more at month T exactly when T is not
\* a multiple of k; month T is never sampled twice; interval 6 gives months 6
\* and 10 for T = 10, and 6 and 12 for T = 12.
C6_SampleMonths ==
    (ProjectionsDone /\ Ge(args.interval, Num(1))) =>
        /\ SameNumbers(sampled, ExpectedMonths(args.interval, ProjTotalMonths))
        /\ Len(ret.value.labels) = Len(sampled)
        /\ \A i \in 1 .. Len(sampled) :
               Eq(ret.value.invested[i],
                  round(Times(args.monthlyAmount, sampled[i]), 2))
        /\ Cardinality({i \in 1 .. Len(sampled) : Eq(sampled[i], ProjTotalMonths)}) <= 1
        /\ (Eq(args.interval, Num(6)) /\ Eq(ProjTotalMonths, Num(10))) =>
               SameNumbers(sampled, <<Num(6), Num(10)>>)
        /\ (Eq(args.interval, Num(6)) /\ Eq(ProjTotalMonths, Num(12))) =>
               SameNumbers(sampled, <<Num(6), Num(12)>>)

C6_Witness ==
    /\ ProjectionsDone
    /\ Eq(args.interval, Num(6)) /\ Eq(ProjTotalMonths, Num(10))
    /\ SameNumbers(sampled, <<Num(6), Num(10)>>)
    /\ Len(ret.value.maturity) = 2

\* the sample of the series at position i is the one computed from the month
\* count m alone
SampleIs(i, m) ==
    /\ Eq(investedValues[i], round(Times(args.monthlyAmount, m), 2))
    /\ Eq(maturityValues[i],
          round(ValueOf([monthlyAmount |-> args.monthlyAmount, months |-> m,
                         monthlyRate |-> Over(args.annualReturns, Num(1200))]), 2))

\* C7: the sample of calculateSIPProjections at month count m has invested =
\* round(monthlyAmount * m, 2) and maturity = round(calculateSIPValue(
\* monthlyAmount, m, monthlyRate), 2), whatever the interval and the samples
\* before it (the sample just pushed while the loop runs, all of them in the
\* series returned); for arguments calculateSIP accepts, the last sample of
\* calculateSIPProjections and, for a whole number of years, the last row of
\* calculateYearlyGrowth equal calculateSIP's totalInvested and maturityValue.
C7_SamplesIndependent ==
    /\ ProjectionsRunning =>
           /\ Len(investedValues) = Len(sampled)
           /\ Len(maturityValues) = Len(sampled)
           /\ Len(sampled) >= 1 => SampleIs(Len(sampled), sampled[Len(sampled)])
    /\ ProjectionsDone =>
           \A i \in 1 .. Len(sampled) : SampleIs(i, sampled[i])
    /\ (ProjectionsDone /\ ValidSIPArgs(args)) =>
           /\ Len(sampled) >= 1
           /\ Eq(ret.value.invested[Len(sampled)], SIPOf(args).value.totalInvested)
           /\ Eq(ret.value.maturity[Len(sampled)], SIPOf(args).value.maturityValue)
    /\ (GrowthDone /\ ValidSIPArgs(args) /\ IsInt(args.years)) =>
           /\ Len(ret.value) >= 1
           /\ Eq(ret.value[Len(ret.value)].totalInvested,
                 SIPOf(args).value.totalInvested)
           /\ Eq(ret.value[Len(ret.value)].currentValue,
                 SIPOf(args).value.maturityValue)

\* a series that ends with the final point, which equals calculateSIP's result
C7_Witness ==
    /\ ProjectionsDone /\ ValidSIPArgs(args)
    /\ Len(sampled) >= 2
    /\ ~IsMultiple(args.interval, ProjTotalMonths)
    /\ Eq(ret.value.maturity[Len(sampled)], SIPOf(args).value.maturityValue)
    /\ Gt(ret.value.maturity[Len(sampled)], ret.value.invested[Len(sampled)])

\* the series the arguments of the call determine: the sample of each month
\* of ExpectedMonths, the one at the duration being the final point when the
\* duration is not a multiple of the interval
SeriesOf(a) ==
    LET T     == Times(a.years, Num(12))
        r     == Over(Over(a.annualReturns, Num(100)), Num(12))
        at    == ExpectedMonths(a.interval, T)
        inner == Cardinality(MultiplesUpTo(a.interval, T))
        s     == [i \in 1 .. Len(at) |->
                     Call("sample", <<a.monthlyAmount, a.years, r, at[i], i > inner>>)]
    IN  [labels   |-> [i \in 1 .. Len(at) |-> s[i].label],
         invested |-> [i \in 1 .. Len(at) |-> s[i].invested],
         maturity |-> [i \in 1 .. Len(at) |-> s[i].maturity],
         returns  |-> [i \in 1 .. Len(at) |-> s[i].returns]]

\* C8: in the series calculateSIPProjections returns the months behind
\* consecutive samples strictly increase and labels, invested, maturity and
\* returns have the same length; the rows of calculateYearlyGrowth have year
\* 1, 2, ... in order; the series returned is the one its parameters and
\* interval determine, so two calls with the same arguments return equal
\* series.
C8_SeriesOrdered ==
    /\ ProjectionsDone =>
           /\ \A i \in 1 .. Len(sampled) - 1 : Lt(sampled[i], sampled[i + 1])
           /\ Len(ret.value.labels) = Len(sampled)
           /\ Len(ret.value.invested) = Len(ret.value.labels)
           /\ Len(ret.value.maturity) = Len(ret.value.labels)
           /\ Len(ret.value.returns) = Len(ret.value.labels)
           /\ ret.value = SeriesOf(args)
    /\ GrowthDone =>
           \A i \in 1 .. Len(ret.value) : Eq(ret.value[i].year, Num(i))

C8_Witness ==
    /\ ProjectionsDone
    /\ Len(ret.value.labels) >= 3
    /\ Lt(sampled[1], sampled[2]) /\ Lt(sampled[2], sampled[3])
    /\ Len(ret.value.returns) = Len(ret.value.labels)

\* C9: every call of calculateSIPProjections, whatever its duration and its
\* interval (0 and negative intervals included), leaves its sampling loop and
\* returns a series.
C9_Terminates ==
    (fn = "calculateSIPProjections" /\ pc = "loop") ~> (pc = "done")

RequiredDone == fn = "calculateRequiredSIP" /\ pc = "done"

\* the forward formula applied to the contribution c for the period and the
\* rate of the call
Forward(c) ==
    ValueOf([monthlyAmount |-> c, months |-> Times(args.years, Num(12)),
             monthlyRate |-> Over(args.annualReturns, Num(1200))])

\* C10: for a target > 0, years > 0 and an annual rate >= 0, the forward
\* formula applied to c = calculateRequiredSIP(target, years, rate) gives the
\* target back within the error of rounding c to 2 decimals, which is 0.005
\* times the value one unit of contribution grows to; with rate 0, c is the
\* target divided by the number of months, rounded to 2 decimals.
C10_RoundTrip ==
    (RequiredDone /\ Positive(args.targetAmount) /\ Positive(args.years)
        /\ NonNegative(args.annualReturns)) =>
        /\ ~ret.threw
        /\ Le(Abs(Minus(Forward(ret.value), args.targetAmount)),
              Times(Frac(5, 1000), Forward(Num(1))))
        /\ IsZero(args.annualReturns) =>
               Eq(ret.value,
                  round(Over(args.targetAmount, Times(args.years, Num(12))), 2))

C10_Witness ==
    /\ RequiredDone
    /\ Positive(args.annualReturns)
    /\ Gt(args.targetAmount, Num(1000))
    /\ Positive(ret.value)
    /\ ~Eq(Forward(ret.value), args.targetAmount)
    /\ Le(Abs(Minus(Forward(ret.value), args.targetAmount)), Num(1))

TimeDone == fn = "calculateRequiredTime" /\ pc = "done"

\* the other inputs of a call are ordinary: finite and positive
Ordinary(x) == IsFin(x) /\ Positive(x)

\* C11: calculateRequiredSIP returns a finite value when the rate is 0 and
\* when the period is 0 months, and calculateRequiredTime returns a finite
\* value when the rate is 0 and when the monthly contribution is 0 (the
\* remaining inputs being finite and positive): never NaN, never an infinity.
C11_Finite ==
    /\ (RequiredDone /\ Ordinary(args.targetAmount)
            /\ (IsZero(args.annualReturns) \/ Ordinary(args.annualReturns))
            /\ (IsZero(args.years) \/ Ordinary(args.years))
            /\ (IsZero(args.annualReturns) \/ IsZero(args.years)))
        => (~ret.threw /\ IsFin(ret.value))
    /\ (TimeDone /\ Ordinary(args.targetAmount)
            /\ (IsZero(args.annualReturns) \/ Ordinary(args.annualReturns))
            /\ (IsZero(args.monthlyAmount) \/ Ordinary(args.monthlyAmount))
            /\ (IsZero(args.annualReturns) \/ IsZero(args.monthlyAmount)))
        => (~ret.threw /\ IsFin(ret.value))

LumpSumDone == fn = "calculateLumpSum" /\ pc = "done"

AllFinite(record) == \A field \in DOMAIN record : IsFin(record[field])

\* a record of finite fields whose return percentage is 0, or an error
ZeroPercentOrError ==
    ret.threw \/ (AllFinite(ret.value) /\ IsZero(ret.value.returnPercentage))

\* C12: calculateSIP with a period of 0 years (amount and rate positive), and
\* calculateLumpSum with principal 0 or years 0 (the other inputs finite and
\* not negative), never give a NaN or infinite field: when the total
\* contributed is 0 the result is an error or a record of finite fields with
\* return percentage 0, and otherwise a record of finite fields.
C12_Degenerate ==
    /\ (SIPDone /\ IsZero(args.years) /\ Ordinary(args.monthlyAmount)
            /\ Ordinary(args.annualReturns))
        => ZeroPercentOrError
    /\ (LumpSumDone /\ IsFin(args.principal) /\ NonNegative(args.principal)
            /\ IsFin(args.years) /\ NonNegative(args.years)
            /\ IsFin(args.annualReturns) /\ NonNegative(args.annualReturns)
            /\ (IsZero(args.principal) \/ IsZero(args.years)))
        => IF IsZero(args.principal) THEN ZeroPercentOrError
           ELSE ~ret.threw /\ AllFinite(ret.value)

\* the value calculateLumpSum grows the principal to, not rounded
Compounded(principal, years, annualReturns) ==
    Times(principal, Pow(Plus(Num(1), Over(annualReturns, Num(100))), years))

\* C13: calculateLumpSum compounds once a year: maturityValue is
\* principal * (1 + annualReturns/100)^years rounded to 2 decimals, returns is
\* that value less the principal and returnPercentage is returns / principal
\* * 100, each within half a cent (half a hundredth of a percent) of rounding;
\* principal 100000 for 5 years at 10% gives 161051.00.
C13_AnnualCompounding ==
    (LumpSumDone /\ Ordinary(args.principal) /\ IsFin(args.years)
        /\ NonNegative(args.years) /\ IsFin(args.annualReturns)
        /\ NonNegative(args.annualReturns)) =>
        LET value == Compounded(args.principal, args.years, args.annualReturns)
        IN  /\ ~ret.threw
            /\ Eq(ret.value.maturityValue, round(value, 2))
            /\ Le(Abs(Minus(ret.value.returns,
                            Minus(ret.value.maturityValue, args.principal))),
                  Frac(1, 100))
            /\ Le(Abs(Minus(ret.value.returnPercentage,
                            Times(Over(Minus(value, args.principal),
                                       args.principal), Num(100)))),
                  Frac(5, 1000))
            /\ (args = LumpSumExample =>
                    Eq(ret.value.maturityValue, Num(161051)))

C13_Witness ==
    /\ LumpSumDone
    /\ args = LumpSumExample
    /\ Eq(ret.value.maturityValue, Num(161051))
    /\ Eq(ret.value.returns, Num(61051))
    /\ Eq(ret.value.returnPercentage, Frac(6105, 100))

CompareDone == fn = "compareSIPvsLumpSum" /\ pc = "done"

\* C14: in the record compareSIPvsLumpSum returns, the winner is 'SIP' when
\* the two maturity values are equal and when the SIP value is larger, and
\* 'Lump Sum' when the lump-sum value is larger; difference is sipMaturity -
\* lumpSumMaturity.
C14_Winner ==
    (CompareDone /\ ~ret.threw) =>
        LET c == ret.value.comparison
        IN  /\ Ge(c.sipMaturity, c.lumpSumMaturity) => c.winner = "SIP"
            /\ Lt(c.sipMaturity, c.lumpSumMaturity) => c.winner = "Lump Sum"
            /\ Eq(c.difference, Minus(c.sipMaturity, c.lumpSumMaturity))

\* the functions of the calculator other than calculateSIP that take numbers
Unvalidated ==
    {"calculateLumpSum", "calculateRequiredSIP", "calculateRequiredTime",
     "calculateSIPProjections", "calculateYearlyGrowth"}

\* an argument is negative or missing (undefined reads as NaN)
NegativeOrMissing(a) ==
    \E field \in DOMAIN a : IsNaN(a[field]) \/ Lt(a[field], Num(0))

\* C15: a call of calculateLumpSum, calculateRequiredSIP,
\* calculateRequiredTime, calculateSIPProjections or calculateYearlyGrowth
\* with a negative or missing numeric argument ends with an error thrown to
\* the caller, never with a result.
C15_Validates ==
    (pc = "done" /\ fn \in Unvalidated /\ NegativeOrMissing(args)) => ret.threw

MultipleDone == fn = "calculateMultipleSIPs" /\ pc = "done"

\* calculateSIP applied to the scenario's own amount, period and returns
ScenarioSIP(scenario) == Call("calculateSIP", ScenarioArgs(scenario))

\* the result of the scenario at position i (from 1) alone: its name, or the
\* default name of its position, with the fields of its calculateSIP record
ScenarioResult(scenario, i) ==
    [name |-> IF scenario.name # "" THEN scenario.name
              ELSE <<"SIP 01", "SIP 11", "SIP 21", "SIP 31">>[i]]
        @@ ScenarioSIP(scenario).value

Rejected(scenarios) == {i \in 1 .. Len(scenarios) : ScenarioSIP(scenarios[i]).threw}

First(indices) == CHOOSE i \in indices : \A j \in indices : i <= j

Rounded(x, decimals) == ~IsFin(x) \/ IsInt(Times(x, Pow(Num(10), Num(decimals))))

AllRounded(record, fields) == \A field \in fields : Rounded(record[field], 2)

EachRounded(values) == \A i \in 1 .. Len(values) : Rounded(values[i], 2)

SIPCurrency == {"monthlyAmount", "totalInvested", "maturityValue", "returns"}

LumpSumCurrency == {"principal", "maturityValue", "returns"}

YearlyCurrency == {"invested", "totalInvested", "currentValue", "returns"}

\* C17: every currency field of every record returned by calculateSIP,
\* calculateLumpSum, compareSIPvsLumpSum (sipTotalInvested and difference
\* included), calculateYearlyGrowth and calculateSIPProjections has at most 2
\* decimals, and calculateSIP's monthlyRate at most 6, whatever the number of
\* decimals of the amounts passed.
C17_Rounded ==
    /\ (SIPDone /\ ~ret.threw) =>
           AllRounded(ret.value, SIPCurrency) /\ Rounded(ret.value.monthlyRate, 6)
    /\ LumpSumDone => AllRounded(ret.value, LumpSumCurrency)
    /\ (CompareDone /\ ~ret.threw) =>
           /\ AllRounded(ret.value.sip, SIPCurrency)
           /\ Rounded(ret.value.sip.monthlyRate, 6)
           /\ AllRounded(ret.value.lumpSum, LumpSumCurrency)
           /\ AllRounded(ret.value.comparison,
                         {"sipMaturity", "lumpSumMaturity", "difference"})
           /\ Rounded(ret.value.sipTotalInvested, 2)
    /\ GrowthDone =>
           \A i \in 1 .. Len(ret.value) : AllRounded(ret.value[i], YearlyCurrency)
    /\ ProjectionsDone =>
           /\ EachRounded(ret.value.invested)
           /\ EachRounded(ret.value.maturity)
           /\ EachRounded(ret.value.returns)

ProfileDone == fn = "assessRiskProfile" /\ pc = "done"

\* the points of an answer: those listed for it, or the default of its
\* question when it is missing or not listed
Points(question, answer) ==
    IF answer \in DOMAIN AnswerScores[question]
    THEN AnswerScores[question][answer]
    ELSE DefaultScores[question]

\* the weighted sum of the points of the seven answers
RECURSIVE WeightedSum(_, _)
WeightedSum(answers, i) ==
    IF i > Len(Questions) THEN 0
    ELSE weights[Questions[i]] * Points(Questions[i], answers[Questions[i]])
             + WeightedSum(answers, i + 1)

\* the largest weighted sum: 8 points for every question
FullScore ==
    8 * (weights.timeHorizon + weights.riskTolerance + weights.investmentGoal
         + weights.lossTolerance + weights.knowledgeLevel + weights.experience
         + weights.incomeStability)

\* C18: for every combination of the seven answers, missing and unrecognised
\* ones included, assessRiskProfile returns a riskScore from 0 to 100 and a
\* riskLevel that is Conservative exactly when the weighted sum is below 35%
\* of the full score, Aggressive exactly when it is above 65%, and Moderate
\* otherwise; riskScore is that percentage to 1 decimal.
C18_Profile ==
    ProfileDone =>
        LET sum   == WeightedSum(args.answers, 1)
            score == ret.value.riskScore
            level == ret.value.riskLevel
        IN  /\ ~ret.threw
            /\ IsFin(score) /\ Ge(score, Num(0)) /\ Le(score, Num(100))
            /\ level \in {"Conservative", "Moderate", "Aggressive"}
            /\ (level = "Conservative") <=> (100 * sum < 35 * FullScore)
            /\ (level = "Aggressive") <=> (100 * sum > 65 * FullScore)
            /\ Eq(score, round(Frac(100 * sum, FullScore), 1))

OptimizeDone == fn = "optimizePortfolioAllocation" /\ pc = "done"

\* C19: for every risk tolerance (conservative, moderate, aggressive, missing
\* or unknown) and every time horizon (below 5, 5 to 15, above 15, absent)
\* the percentages of the allocation optimizePortfolioAllocation returns sum
\* to exactly 100.
C19_SumsTo100 ==
    OptimizeDone =>
        /\ ~ret.threw
        /\ Eq(Plus(Plus(Plus(Plus(ret.value.sip, ret.value.stocks),
                             ret.value.bonds),
                        ret.value.realestate),
                   ret.value.gold),
              Num(100))

RiskDone == fn = "calculatePortfolioRisk" /\ pc = "done"

\* no asset of the portfolio has an allocation other than 0
NothingAllocated ==
    \/ ~args.portfolio.hasAssets
    \/ \A i \in DOMAIN args.portfolio.assets :
           Not(args.portfolio.assets[i].allocation)

\* C20: calculatePortfolioRisk returns a score from 1 to 10 for every
\* portfolio, and 5 when the portfolio has no assets or no asset has a
\* non-zero allocation.
C20_RiskScale ==
    RiskDone =>
        /\ ~ret.threw
        /\ Ge(ret.value, Num(1)) /\ Le(ret.value, Num(10))
        /\ NothingAllocated => Eq(ret.value, Num(5))

ReturnsDone == fn = "calculatePortfolioReturns" /\ pc = "done"

\* the value stated for one asset: the SIP future value at the asset's own
\* annual percentage for a 'sip', compound growth for the others
StatedValue(asset, years) ==
    IF asset.assetType = "sip" /\ Gt(asset.amount, Num(0))
    THEN Call("calculateSIP", <<asset.amount, years, asset.returns>>).value.maturityValue
    ELSE CompoundValue(asset, years)

\* the sum of the stated values of the assets from i on that have an amount
\* and a return
RECURSIVE StatedSum(_, _, _)
StatedSum(assets, i, years) ==
    IF i > Len(assets) THEN Num(0)
    ELSE IF Not(assets[i].amount) \/ Not(assets[i].returns)
    THEN StatedSum(assets, i + 1, years)
    ELSE Plus(StatedValue(assets[i], years), StatedSum(assets, i + 1, years))

\* C22: calculatePortfolioReturns values a 'sip' asset of monthly amount a and
\* annual return p over timeHorizon y as calculateSIP(a, y, p).maturityValue,
\* every other asset as amount * (1 + p/100)^y, and returns the rounded sum
\* over the assets that have both an amount and a return.
C22_SIPAtSameRate ==
    (ReturnsDone /\ args.portfolio.hasAssets /\ ~Not(args.portfolio.timeHorizon)) =>
        /\ ~ret.threw
        /\ Eq(ret.value,
              round(StatedSum(args.portfolio.assets, 1, args.portfolio.timeHorizon), 2))

StatsDone == fn = "calculateAggregateStats" /\ pc = "done"

\* investment i has the largest roi and is the first that has it
FirstBest(investments, i) ==
    /\ \A j \in DOMAIN investments : Ge(investments[i].roi, investments[j].roi)
    /\ \A j \in 1 .. i - 1 : Lt(investments[j].roi, investments[i].roi)

\* investment i has the smallest roi and is the first that has it
FirstWorst(investments, i) ==
    /\ \A j \in DOMAIN investments : Le(investments[i].roi, investments[j].roi)
    /\ \A j \in 1 .. i - 1 : Gt(investments[j].roi, investments[i].roi)

\* the performers of a record with investments, as stated
Performers(investments, stats) ==
    /\ \E i \in DOMAIN investments :
           stats.bestPerformer = investments[i] /\ FirstBest(investments, i)
    /\ \E i \in DOMAIN investments :
           stats.worstPerformer = investments[i] /\ FirstWorst(investments, i)

\* C23: bestPerformer is an investment whose roi is >= the roi of every
\* portfolio and SIP of the record, worstPerformer one whose roi is <= every
\* roi, each the first such in portfolio-then-SIP order; with no investments
\* both are null and every distribution bucket is 0.
C23_Performers ==
    StatsDone =>
        IF args.analytics.portfolios = <<>> /\ args.analytics.sips = <<>>
        THEN /\ ret.value.bestPerformer = null
             /\ ret.value.worstPerformer = null
             /\ \A bucket \in {"low", "medium", "high"} :
                    ret.value.riskDistribution[bucket] = 0
        ELSE Performers(AllInvestments(args.analytics), ret.value)

\* a portfolio and a SIP tie for best and worst: the portfolio is reported
C23_Witness ==
    /\ StatsDone
    /\ Len(args.analytics.portfolios) = 2 /\ Len(args.analytics.sips) = 1
    /\ Eq(args.analytics.portfolios[2].metrics.roi, Num(15))
    /\ Eq(args.analytics.sips[1].result.returnPercentage, Num(15))
    /\ Eq(args.analytics.portfolios[1].metrics.roi, Num(8))
    /\ ret.value.bestPerformer = [roi |-> Num(15), name |-> "P2", type |-> "portfolio"]
    /\ ret.value.worstPerformer = [roi |-> Num(8), name |-> "P1", type |-> "portfolio"]

EngineDone == fn = "getRecommendedAllocation" /\ pc = "done"

\* the allocation of the level of a profile, the Moderate one for a null
\* profile and for one without riskLevel
LevelAllocation(riskProfile) ==
    IF riskProfile = null \/ riskProfile.riskLevel = "" THEN allocations.moderate
    ELSE AllocationOf(toLowerCase(riskProfile.riskLevel))

\* C21: getRecommendedAllocation(riskProfile) of the AI engine ends by
\* returning the allocation of the profile's riskLevel, and the Moderate
\* allocation for a null profile or one without riskLevel.
C21_Recommends ==
    EngineDone => ~ret.threw /\ ret.value = LevelAllocation(args.riskProfile)

\* the portfolios stored now and before the call made last, as a working
\* localStorage gives them
StoredNow == getPortfolios(localStorage, "ok")

StoredBefore == getPortfolios(before, "ok")

\* a portfolio as JSON keeps it
Kept(portfolio) == JSONStringify("portfolios", <<portfolio>>).value[1]

DistinctIds(portfolios) ==
    \A i, j \in DOMAIN portfolios : i # j => portfolios[i].id # portfolios[j].id

\* the list after a save that was written: the entry of the same id replaced
\* where it was, or the portfolio added at the end
SavedInPlace(old, new, portfolio) ==
    IF \E i \in DOMAIN old : old[i].id = portfolio.id
    THEN /\ Len(new) = Len(old)
         /\ \A i \in DOMAIN old :
                new[i] = IF old[i].id = portfolio.id THEN Kept(portfolio) ELSE old[i]
    ELSE new = Append(old, Kept(portfolio))

\* C24: from a store without portfolios, after any sequence of savePortfolio
\* and deletePortfolio calls (and of the other calls) no two stored
\* portfolios share an id; a save replaces the entry of the same id in place
\* or appends, so the list grows by at most 1 per save.
C24_DistinctIds ==
    /\ DistinctIds(StoredNow)
    /\ fn = "savePortfolio" =>
           /\ Len(StoredNow) <= Len(StoredBefore) + 1
           /\ access = "ok" => SavedInPlace(StoredBefore, StoredNow, args.portfolio)

\* a save of an id already stored, over another entry, has replaced it where
\* it was
C24_Witness ==
    /\ fn = "savePortfolio" /\ access = "ok"
    /\ Len(StoredBefore) = 2 /\ Len(StoredNow) = 2
    /\ StoredBefore[1].id = args.portfolio.id
    /\ StoredBefore[1] # Kept(args.portfolio)
    /\ StoredNow = <<Kept(args.portfolio), StoredBefore[2]>>

\* the stored portfolios whose id is not id, in their order
OthersOf(portfolios, id) ==
    SelectSeq(portfolios, LAMBDA p : p.id # id)

\* C25: immediately after savePortfolio(p), getPortfolioById(p.id) returns a
\* portfolio equal to p; immediately after deletePortfolio(id),
\* getPortfolioById(id) returns null; in both cases the stored portfolios of
\* the other ids are unchanged and keep their order.
C25_RoundTrip ==
    /\ fn = "savePortfolio" =>
           /\ getPortfolioById(localStorage, "ok", args.portfolio.id) = args.portfolio
           /\ OthersOf(StoredNow, args.portfolio.id)
                  = OthersOf(StoredBefore, args.portfolio.id)
    /\ fn = "deletePortfolio" =>
           /\ getPortfolioById(localStorage, "ok", args.id) = null
           /\ OthersOf(StoredNow, args.id) = OthersOf(StoredBefore, args.id)

ScenariosNow == getSIPScenarios(localStorage, "ok")

ScenariosBefore == getSIPScenarios(before, "ok")

\* a list without its entry at index (from 0)
Without(list, index) ==
    [i \in 1 .. Len(list) - 1 |-> IF i <= index THEN list[i] ELSE list[i + 1]]

\* C26: deleteSIPScenario(index) with index < 0 or index >= the number of
\* stored scenarios returns false and leaves the stored list unchanged; with
\* a valid index it returns true and removes exactly the scenario at that
\* index, the others keeping their order; saveSIPScenario appends at the end.
C26_DeleteByIndex ==
    /\ fn = "deleteSIPScenario" =>
           IF args.index < 0 \/ args.index >= Len(ScenariosBefore)
           THEN ret.value = FALSE /\ localStorage = before
           ELSE ret.value = TRUE /\ ScenariosNow = Without(ScenariosBefore, args.index)
    /\ fn = "saveSIPScenario" =>
           ret.value = TRUE /\ ScenariosNow = Append(ScenariosBefore, args.scenario)

\* C27: for a record d of exportAllData, after importData(d) returns true
\* exportAllData() returns the sipScenarios, portfolios, riskProfile and
\* comparisonSIPs of d, whatever the store held before, a risk profile with
\* d.riskProfile null included.
C27_ImportExport ==
    (fn = "importData" /\ ret = Returned(TRUE)) =>
        exportAllData(localStorage, "ok") = args.data

\* the call made last could not write to localStorage
WriteFailed == access \in {"full", "denied"}

\* the call made last could not read the text under key, or found one that
\* is not JSON
ReadFailed(key) == access = "denied" \/ before[key] = invalid

\* C28: when the write to localStorage fails, saveSIPScenario, savePortfolio,
\* saveRiskProfile and deletePortfolio leave the stored data unchanged and
\* still return true; when reading fails or the stored text is not valid
\* JSON, getStorageData gives null and the getters return an empty list.
C28_SilentFailure ==
    /\ (WriteFailed /\ fn \in {"saveSIPScenario", "savePortfolio",
                              "saveRiskProfile", "deletePortfolio"}) =>
           localStorage = before /\ ret = Returned(TRUE)
    /\ (fn = "getSIPScenarios" /\ ReadFailed("sipScenarios")) =>
           /\ getStorageData(before, access, "sipScenarios") = null
           /\ ret = Returned(<<>>)
    /\ (fn = "getPortfolios" /\ ReadFailed("portfolios")) =>
           /\ getStorageData(before, access, "portfolios") = null
           /\ ret = Returned(<<>>)

\* a scenario was not written and true came back
C28_Witness ==
    /\ fn = "saveSIPScenario" /\ access = "full"
    /\ ScenariosBefore = <<>> /\ ScenariosNow = <<>>
    /\ ret = Returned(TRUE)

\* call i of the debounced function was followed by the next less than wait
\* later
Burst(i) == i < Len(called) /\ called[i + 1].time - called[i].time < wait

\* call i was followed by the next no less than wait later
Apart(i) == i < Len(called) /\ called[i + 1].time - called[i].time >= wait

InvokedFor(i) == \E k \in 1 .. Len(invoked) : invoked[k].call = i

\* every invocation of func is for the call made last before it, which is
\* not one followed within wait, comes no earlier than wait after that call,
\* has its arguments and is the only one for it; one timer at most is pending
DebounceSafe ==
    /\ Cardinality(timers) <= 1
    /\ \A k \in 1 .. Len(invoked) :
           LET i == invoked[k].call
           IN  /\ i \in 1 .. Len(called)
               /\ invoked[k].args = called[i].args
               /\ invoked[k].time >= called[i].time + wait
               /\ ~Burst(i)
               /\ i < Len(called) => called[i + 1].time >= invoked[k].time
               /\ \A j \in 1 .. Len(invoked) : invoked[j].call = i => j = k

LastCallInvoked == called = <<>> \/ InvokedFor(Len(called))

\* C29: as the claim states it: func is not invoked during a burst and is
\* invoked once for its last call, with that call's arguments, and that wait
\* after the call exactly; one timer at most is pending; and every call that
\* the next follows no less than wait later has an invocation of its own.
C29_OwnInvocation ==
    /\ DebounceSafe
    /\ \A k \in 1 .. Len(invoked) :
           invoked[k].time = called[invoked[k].call].time + wait
    /\ \A i \in 1 .. Len(called) : Apart(i) => InvokedFor(i)

\* C29: func is never invoked for a call that the next follows less than
\* wait later; every invocation is for the call made last, with that call's
\* arguments, no earlier than wait after it, and no call is invoked twice;
\* one timer at most is pending; and once the calls have ended func comes to
\* be invoked for the last of them.  A call that the next follows wait or
\* more later is invoked only if its timer has run by then.
C29_Debounced == []DebounceSafe /\ <>[]LastCallInvoked

\* a burst of two calls, invoked once, and then a call on its own, invoked too
C29_Witness ==
    /\ Len(called) = 3
    /\ Burst(1)
    /\ Apart(2)
    /\ Len(invoked) = 2
    /\ invoked[1].call = 2
    /\ invoked[2].call = 3

====
